---- MODULE Spec2Model ----
(***************************************************************************)
(* Verification model of the options-hedge backtester: the Option and      *)
(* Portfolio state machine (option.py, portfolio.py), the daily simulation *)
(* loop (simulation.py) and the fixed-floor LP (fixed_floor_lp.py).        *)
(*                                                                         *)
(* Numbers.  The program computes in binary floating point; the model      *)
(* computes in exact fixed point.  Every money amount (strike, price,      *)
(* premium, cash, equity_value, payoff, Value) is an integer number of     *)
(* hundredths, a daily return is an integer number of halves (RetDen), and *)
(* the input sets are chosen so that every division the code performs is   *)
(* exact.  Dates are integer day numbers.                                  *)
(***************************************************************************)
EXTENDS Integers, Sequences, FiniteSets, TLC

VARIABLES
    portfolio,  \* the Portfolio object: a record of its dataclass fields
    last,       \* the last call made on the object, its arguments and outcome
    calls,      \* number of calls made so far (bounds the exploration)
    market,     \* market.data: the sequence of rows [Close, Returns]
    row,        \* run_simulation: 1-based index of the row being processed
    pc,         \* run_simulation: position inside the loop body (1..4)
    steps,      \* run_simulation: log of the steps executed, <<row, step>>
    lp_in,      \* an LP solver function: the arguments of the call
    lp_out,     \* an LP solver function: the returned value
    params,     \* a strategy function: the params dict shared by its calls
    today       \* a strategy function: current_date of the latest call

vars == <<portfolio, last, calls, market, row, pc, steps, lp_in, lp_out,
          params, today>>

----------------------------------------------------------------------------
(* Bounds of the exploration *)

MaxCalls == 3
MaxDate == 2
MaxRows == 3

----------------------------------------------------------------------------
(* Program constants and fixed-point scales *)

\* option.py MIN_OPTION_VALUE = 0.0
MIN_OPTION_VALUE == 0

\* portfolio.py DEFAULT_OPTION_BID_ASK_SPREAD = 0.05, as SpreadNum / SpreadDen
SpreadNum == 5
SpreadDen == 100

\* portfolio.py DEFAULT_CASH = 0.0
DEFAULT_CASH == 0

\* a daily return r stands for r / RetDen
RetDen == 2

----------------------------------------------------------------------------
(* Input sets *)

Strikes == {900, 1100}
Prices == {800, 1000}
Premiums == {20}
Quantities == {-1, 1, 2}
Dates == 1..MaxDate
DailyReturns == {-1, 1}
Betas == {1, 2}
InitialValues == {8000}
InitialCash == {DEFAULT_CASH, 21}

----------------------------------------------------------------------------
(* Helpers *)

Max(a, b) == IF a >= b THEN a ELSE b

Range(s) == {s[i] : i \in 1..Len(s)}

----------------------------------------------------------------------------
(* option.py: class Option *)

Option(strike, premium, expiry, quantity) ==
    [strike |-> strike, premium |-> premium, expiry |-> expiry,
     quantity |-> quantity]

payoff_unfloored(self, current_price) ==
    (self.strike - current_price) * self.quantity

payoff(self, current_price) ==
    Max(self.strike - current_price, MIN_OPTION_VALUE) * self.quantity

value_strict_expiry(self, current_price, current_date) ==
    IF current_date > self.expiry
    THEN MIN_OPTION_VALUE
    ELSE Max(self.strike - current_price, MIN_OPTION_VALUE) * self.quantity

value(self, current_price, current_date) ==
    IF current_date >= self.expiry
    THEN MIN_OPTION_VALUE
    ELSE Max(self.strike - current_price, MIN_OPTION_VALUE) * self.quantity

total_cost(self) == self.premium * self.quantity

----------------------------------------------------------------------------
(* portfolio.py: class Portfolio *)

\* the dataclass defaults and __post_init__
NewPortfolio(initial_value, beta, cash) ==
    [initial_value |-> initial_value,
     beta |-> beta,
     equity_value |-> initial_value,
     cash |-> cash,
     options |-> <<>>,
     history |-> <<>>,
     total_transaction_costs |-> 0]

\* buy_put returns the updated object and whether ValueError was raised
buy_put_ignores_margin_flag(self, strike, premium, expiry, quantity, allow_margin) ==
    LET opt == Option(strike, premium, expiry, quantity)
        base_cost == total_cost(opt)
        transaction_cost == (base_cost * SpreadNum) \div SpreadDen
        cost == base_cost + transaction_cost
    IN  IF self.cash < cost
        THEN [self |-> self, raised |-> TRUE]
        ELSE [self |-> [self EXCEPT
                          !.options = Append(@, opt),
                          !.cash = @ - cost,
                          !.total_transaction_costs = @ + transaction_cost],
              raised |-> FALSE]

buy_put_strict_funds(self, strike, premium, expiry, quantity, allow_margin) ==
    LET opt == Option(strike, premium, expiry, quantity)
        base_cost == total_cost(opt)
        transaction_cost == (base_cost * SpreadNum) \div SpreadDen
        cost == base_cost + transaction_cost
    IN  IF ~allow_margin /\ self.cash <= cost
        THEN [self |-> self, raised |-> TRUE]
        ELSE [self |-> [self EXCEPT
                          !.options = Append(@, opt),
                          !.cash = @ - cost,
                          !.total_transaction_costs = @ + transaction_cost],
              raised |-> FALSE]

buy_put(self, strike, premium, expiry, quantity, allow_margin) ==
    LET opt == Option(strike, premium, expiry, quantity)
        base_cost == total_cost(opt)
        transaction_cost == (base_cost * SpreadNum) \div SpreadDen
        cost == base_cost + transaction_cost
    IN  IF ~allow_margin /\ self.cash < cost
        THEN [self |-> self, raised |-> TRUE]
        ELSE [self |-> [self EXCEPT
                          !.options = Append(@, opt),
                          !.cash = @ - cost,
                          !.total_transaction_costs = @ + transaction_cost],
              raised |-> FALSE]

update_equity_unit_beta(self, daily_return) ==
    [self EXCEPT !.equity_value =
        (@ * (RetDen + daily_return)) \div RetDen]

update_equity(self, daily_return) ==
    [self EXCEPT !.equity_value =
        (@ * (RetDen + daily_return * self.beta)) \div RetDen]

RECURSIVE OptionValueSum(_, _, _)
OptionValueSum(opts, current_price, current_date) ==
    IF opts = <<>> THEN 0
    ELSE value(Head(opts), current_price, current_date)
         + OptionValueSum(Tail(opts), current_price, current_date)

total_value_without_cash(self, current_price, current_date) ==
    self.equity_value
    + OptionValueSum(self.options, current_price, current_date)

total_value(self, current_price, current_date) ==
    LET option_value ==
            OptionValueSum(self.options, current_price, current_date)
    IN  self.equity_value + self.cash + option_value

\* the for loop of exercise_expired_options: the scan state is the cash and
\* the list of expired options collected so far
RECURSIVE ExerciseScan(_, _, _, _, _)
ExerciseScan(opts, cash, expired, current_price, current_date) ==
    IF opts = <<>> THEN [cash |-> cash, expired |-> expired]
    ELSE LET opt == Head(opts)
         IN  IF current_date >= opt.expiry
             THEN ExerciseScan(Tail(opts),
                               IF payoff(opt, current_price) > 0
                               THEN cash + payoff(opt, current_price)
                               ELSE cash,
                               Append(expired, opt),
                               current_price, current_date)
             ELSE ExerciseScan(Tail(opts), cash, expired,
                               current_price, current_date)

exercise_drops_all(self, current_price, current_date) ==
    LET scan == ExerciseScan(self.options, self.cash, <<>>,
                             current_price, current_date)
    IN  [self EXCEPT !.cash = scan.cash, !.options = <<>>]

exercise_keeps_expired(self, current_price, current_date) ==
    LET scan == ExerciseScan(self.options, self.cash, <<>>,
                             current_price, current_date)
    IN  [self EXCEPT !.cash = scan.cash]

exercise_expired_options(self, current_price, current_date) ==
    LET scan == ExerciseScan(self.options, self.cash, <<>>,
                             current_price, current_date)
        Kept(o) == o \notin Range(scan.expired)
    IN  [self EXCEPT !.cash = scan.cash,
                     !.options = SelectSeq(self.options, Kept)]

\* check_early_exercise ignores its arguments and returns 0
check_early_exercise(self, current_price, current_date, exercise_rule) ==
    [self |-> self, ret |-> 0]

record(self, date, total) ==
    [self EXCEPT !.history = Append(@, [Date |-> date, Value |-> total])]


----------------------------------------------------------------------------
(* Idle values of the variables a specification does not use *)

NoCall == [op |-> "none"]
NoMarket == <<>>
NoLP == [status |-> "none"]

IdlePortfolio == NewPortfolio(0, 1, DEFAULT_CASH)

SimIdle == market = NoMarket /\ row = 0 /\ pc = 0 /\ steps = <<>>
LPIdle == lp_in = NoLP /\ lp_out = NoLP
NoParams == [strategy |-> "none"]
StrategyIdle == params = NoParams /\ today = 0

----------------------------------------------------------------------------
(* Specification Spec: a client constructs a Portfolio and calls its        *)
(* methods in any order with any arguments                                  *)

Init ==
    /\ \E iv \in InitialValues, b \in Betas, c \in InitialCash :
           portfolio = NewPortfolio(iv, b, c)
    /\ last = NoCall
    /\ calls = 0
    /\ SimIdle
    /\ LPIdle
    /\ StrategyIdle

CallBuyPut ==
    /\ calls < MaxCalls
    /\ \E strike \in Strikes, premium \in Premiums, expiry \in Dates,
          quantity \in Quantities, allow_margin \in BOOLEAN :
          LET r == buy_put(portfolio, strike, premium, expiry, quantity,
                           allow_margin)
          IN  /\ portfolio' = r.self
              /\ last' = [op |-> "buy_put", strike |-> strike,
                          premium |-> premium, expiry |-> expiry,
                          quantity |-> quantity,
                          allow_margin |-> allow_margin,
                          raised |-> r.raised]
    /\ calls' = calls + 1
    /\ UNCHANGED <<params, today, market, row, pc, steps, lp_in, lp_out>>

CallUpdateEquity ==
    /\ calls < MaxCalls
    /\ \E daily_return \in DailyReturns :
          /\ portfolio' = update_equity(portfolio, daily_return)
          /\ last' = [op |-> "update_equity", daily_return |-> daily_return]
    /\ calls' = calls + 1
    /\ UNCHANGED <<params, today, market, row, pc, steps, lp_in, lp_out>>

CallTotalValue ==
    /\ calls < MaxCalls
    /\ \E current_price \in Prices, current_date \in Dates :
          last' = [op |-> "total_value", price |-> current_price,
                   date |-> current_date,
                   ret |-> total_value(portfolio, current_price,
                                       current_date)]
    /\ calls' = calls + 1
    /\ UNCHANGED <<params, today, portfolio, market, row, pc, steps, lp_in, lp_out>>

CallExerciseExpiredOptions ==
    /\ calls < MaxCalls
    /\ \E current_price \in Prices, current_date \in Dates :
          /\ portfolio' = exercise_expired_options(portfolio, current_price,
                                                   current_date)
          /\ last' = [op |-> "exercise_expired_options",
                      price |-> current_price, date |-> current_date]
    /\ calls' = calls + 1
    /\ UNCHANGED <<params, today, market, row, pc, steps, lp_in, lp_out>>

ExerciseRules == {"never_exercise", "always_exercise"}

CallCheckEarlyExercise ==
    /\ calls < MaxCalls
    /\ \E current_price \in Prices, current_date \in Dates,
          exercise_rule \in ExerciseRules :
          LET r == check_early_exercise(portfolio, current_price,
                                        current_date, exercise_rule)
          IN  /\ portfolio' = r.self
              /\ last' = [op |-> "check_early_exercise",
                          price |-> current_price, date |-> current_date,
                          rule |-> exercise_rule, ret |-> r.ret]
    /\ calls' = calls + 1
    /\ UNCHANGED <<params, today, market, row, pc, steps, lp_in, lp_out>>

CallRecord ==
    /\ calls < MaxCalls
    /\ \E current_price \in Prices, current_date \in Dates :
          /\ portfolio' = record(portfolio, current_date,
                                 total_value(portfolio, current_price,
                                             current_date))
          /\ last' = [op |-> "record", price |-> current_price,
                      date |-> current_date]
    /\ calls' = calls + 1
    /\ UNCHANGED <<params, today, market, row, pc, steps, lp_in, lp_out>>

Next ==
    \/ CallBuyPut
    \/ CallUpdateEquity
    \/ CallTotalValue
    \/ CallExerciseExpiredOptions
    \/ CallCheckEarlyExercise
    \/ CallRecord

Spec == Init /\ [][Next]_vars

----------------------------------------------------------------------------
(* Specification SpecOption: an Option is constructed and its three        *)
(* methods are applied to it                                               *)

InitOption ==
    /\ \E strike \in Strikes, premium \in Premiums, expiry \in Dates,
          quantity \in Quantities :
          last = [op |-> "Option",
                  self |-> Option(strike, premium, expiry, quantity)]
    /\ portfolio = IdlePortfolio
    /\ calls = 0
    /\ SimIdle
    /\ LPIdle
    /\ StrategyIdle

\* after a method call `self` is the object the method ran on: the methods
\* contain no assignment
OptionPayoff ==
    /\ \E current_price \in Prices :
          last' = [op |-> "payoff", self |-> last.self,
                   price |-> current_price,
                   ret |-> payoff(last.self, current_price)]
    /\ UNCHANGED <<params, today, portfolio, calls, market, row, pc, steps, lp_in, lp_out>>

OptionValue ==
    /\ \E current_price \in Prices, current_date \in 0..(MaxDate + 1) :
          last' = [op |-> "value", self |-> last.self,
                   price |-> current_price, date |-> current_date,
                   ret |-> value(last.self, current_price, current_date)]
    /\ UNCHANGED <<params, today, portfolio, calls, market, row, pc, steps, lp_in, lp_out>>

OptionTotalCost ==
    /\ last' = [op |-> "total_cost", self |-> last.self,
                ret |-> total_cost(last.self)]
    /\ UNCHANGED <<params, today, portfolio, calls, market, row, pc, steps, lp_in, lp_out>>

NextOption == OptionPayoff \/ OptionValue \/ OptionTotalCost

SpecOption == InitOption /\ [][NextOption]_vars

----------------------------------------------------------------------------
(* simulation.py: run_simulation                                           *)
(* Row i of market.data has date i.  The strategy is any function with the *)
(* StrategyFunction signature; here it does what the strategies of         *)
(* strategies.py do to the portfolio: nothing, or a buy_put with the       *)
(* default allow_margin, a non-negative quantity and an expiry             *)
(* current_date + expiry_days.                                             *)

MarketRows ==
    {[Close |-> 800, Returns |-> -1],
     [Close |-> 1000, Returns |-> 1],
     [Close |-> 1000, Returns |-> 0]}

Markets == [1..MaxRows -> MarketRows]

SimStrikes == {900}
SimPremiums == {20}
SimQuantities == {1, 2}
ExpiryDays == {0, 1}

\* the statements of the loop body, in program order
LoopBodyRecordFirst ==
    <<"update_equity", "strategy_fn", "record", "exercise_expired_options">>

LoopBody ==
    <<"update_equity", "strategy_fn", "exercise_expired_options", "record">>

price_of(r) == market[r].Close
date_of(r) == r

InitSim ==
    /\ \E iv \in InitialValues, b \in Betas :
           portfolio = NewPortfolio(iv, b, DEFAULT_CASH)
    /\ market \in Markets
    /\ row = 1
    /\ pc = 1
    /\ steps = <<>>
    /\ last = NoCall
    /\ calls = 0
    /\ LPIdle
    /\ StrategyIdle

\* the strategy call raised: nothing in run_simulation catches it
SimAborted == last.op = "strategy_fn raised"

SimStatementCatches(name) ==
    /\ row <= Len(market)
    /\ LoopBody[pc] = name
    /\ steps' = Append(steps, <<row, name>>)
    /\ IF pc < Len(LoopBody)
       THEN pc' = pc + 1 /\ row' = row
       ELSE pc' = 1 /\ row' = row + 1
    /\ UNCHANGED <<params, today, market, calls, lp_in, lp_out>>

\* a statement of the loop body runs, then control moves to the next
\* statement, or to the first statement of the next row
SimStatement(name) ==
    /\ ~SimAborted
    /\ row <= Len(market)
    /\ LoopBody[pc] = name
    /\ steps' = Append(steps, <<row, name>>)
    /\ IF pc < Len(LoopBody)
       THEN pc' = pc + 1 /\ row' = row
       ELSE pc' = 1 /\ row' = row + 1
    /\ UNCHANGED <<params, today, market, calls, lp_in, lp_out>>

SimUpdateEquity ==
    /\ SimStatement("update_equity")
    /\ portfolio' = update_equity(portfolio, market[row].Returns)
    /\ last' = [op |-> "update_equity", daily_return |-> market[row].Returns]

SimStrategyNothing ==
    /\ SimStatement("strategy_fn")
    /\ portfolio' = portfolio
    /\ last' = [op |-> "strategy_fn", bought |-> 0,
                equity_seen |-> portfolio.equity_value]

SimStrategyBuyPut ==
    /\ SimStatement("strategy_fn")
    /\ \E strike \in SimStrikes, premium \in SimPremiums,
          expiry_days \in ExpiryDays, quantity \in SimQuantities :
          portfolio' = buy_put(portfolio, strike, premium,
                               date_of(row) + expiry_days, quantity,
                               TRUE).self
    /\ last' = [op |-> "strategy_fn", bought |-> 1,
                equity_seen |-> portfolio.equity_value]

\* strategy_fn(portfolio, price, date, params, market) raises before it
\* writes anything (vix_ladder_strategy without a VIX value): the exception
\* leaves run_simulation, the loop is over
SimStrategyRaises ==
    /\ ~SimAborted
    /\ row <= Len(market)
    /\ LoopBody[pc] = "strategy_fn"
    /\ last' = [op |-> "strategy_fn raised", row |-> row]
    /\ UNCHANGED <<portfolio, row, pc, steps, params, today, market, calls,
                   lp_in, lp_out>>

SimExerciseExpiredOptions ==
    /\ SimStatement("exercise_expired_options")
    /\ portfolio' = exercise_expired_options(portfolio, price_of(row),
                                             date_of(row))
    /\ last' = [op |-> "exercise_expired_options", price |-> price_of(row),
                date |-> date_of(row)]

SimRecord ==
    /\ SimStatement("record")
    /\ portfolio' = record(portfolio, date_of(row),
                           total_value(portfolio, price_of(row),
                                       date_of(row)))
    /\ last' = [op |-> "record", price |-> price_of(row),
                date |-> date_of(row)]

NextSim ==
    \/ SimUpdateEquity
    \/ SimStrategyNothing
    \/ SimStrategyBuyPut
    \/ SimStrategyRaises
    \/ SimExerciseExpiredOptions
    \/ SimRecord

SpecSim == InitSim /\ [][NextSim]_vars

----------------------------------------------------------------------------
(* fixed_floor_lp.py: solve_fixed_floor_lp                                 *)
(*                                                                         *)
(* Fixed point: Q, K, V, F and Payoff are whole money units; r and L are   *)
(* tenths (LPDen); a premium p stands for p / PDen money units; a quantity *)
(* x stands for x / XDen and a slack z for z / XDen money units.  The      *)
(* constraint is written multiplied by XDen and the objective multiplied   *)
(* by XDen * PDen.                                                         *)
(*                                                                         *)
(* The solver is Gurobi.  It is modelled by what m.optimize() guarantees:  *)
(* status OPTIMAL with a minimiser of the objective over the feasible set  *)
(* (any of them, when there are several), or, for an empty feasible set,   *)
(* status INFEASIBLE or another non-optimal status (INF_OR_UNBD).  The     *)
(* variables range over the grid 0..MaxXg (x) and 0..MaxZg (z).            *)

MaxXg == 8
MaxZg == 3

LPDen == 10
PDen == 20
XDen == 6

LPStrikeLists == {<<"K90">>, <<"K100">>, <<"K90", "K100">>}
LPScenarioLists ==
    {<<"crash">>, <<"mild">>, <<"up">>, <<"crash", "mild">>,
     <<"crash", "up">>, <<"mild", "up">>, <<"crash", "mild", "up">>}
LPStrikes == [K90 |-> 9, K100 |-> 10]
StrikesOf(Is) == [i \in Range(Is) |-> LPStrikes[i]]
LPReturns == [crash |-> -4, mild |-> -1, up |-> 1]
LPPremiums == {0, 3, 6, 100}
LPValues == {10, 20}
LPTolerances == {0, 2}

LPInputs ==
    UNION {{[Is |-> Is, S |-> S, K |-> StrikesOf(Is), p |-> p, Q |-> Q,
             r |-> LPReturns, L |-> L] :
               S \in LPScenarioLists, p \in [Range(Is) -> LPPremiums],
               Q \in LPValues, L \in LPTolerances} :
           Is \in LPStrikeLists}

\* V = {s: Q * (1.0 + r[s]) for s in S}
ScenarioValue(in, s) == (in.Q * (LPDen + in.r[s])) \div LPDen

\* F = Q * (1.0 - L)
Floor(in) == (in.Q * (LPDen - in.L)) \div LPDen

\* Payoff = {(i, s): max(0.0, K[i] - V[s])}
Payoff(in, i, s) == Max(0, in.K[i] - ScenarioValue(in, s))

RECURSIVE PayoffSum(_, _, _, _)
PayoffSum(in, labels, x, s) ==
    IF labels = <<>> THEN 0
    ELSE Payoff(in, Head(labels), s) * x[Head(labels)]
         + PayoffSum(in, Tail(labels), x, s)

RECURSIVE PremiumSum(_, _, _)
PremiumSum(in, labels, x) ==
    IF labels = <<>> THEN 0
    ELSE in.p[Head(labels)] * x[Head(labels)]
         + PremiumSum(in, Tail(labels), x)

RECURSIVE SlackSum(_, _)
SlackSum(labels, z) ==
    IF labels = <<>> THEN 0
    ELSE z[Head(labels)] + SlackSum(Tail(labels), z)

\* quicksum(p[i] * x[i]) + quicksum(z[s])
Objective(in, x, z) ==
    PremiumSum(in, in.Is, x) + PDen * SlackSum(in.S, z)

FloorConstraintSlackAdded(in, x, zs, s) ==
    XDen * ScenarioValue(in, s) + PayoffSum(in, in.Is, x, s) + zs
        >= XDen * Floor(in)

\* V[s] + quicksum(Payoff[i, s] * x[i]) - z[s] >= F
FloorConstraint(in, x, zs, s) ==
    XDen * ScenarioValue(in, s) + PayoffSum(in, in.Is, x, s) - zs
        >= XDen * Floor(in)

\* x = m.addVars(Is, lb=0.0), z = m.addVars(S, lb=0.0)
XPoints(in) == [Range(in.Is) -> 0..MaxXg]

MinOf(set) == CHOOSE m \in set : \A n \in set : m <= n

\* z[s] occurs in the constraint of s alone and has a positive cost: for a
\* given x the cheapest feasible z is, scenario by scenario, the least z[s]
\* that satisfies the constraint of s
SlackChoices(in, x, s) == {zs \in 0..MaxZg : FloorConstraint(in, x, zs, s)}

FeasibleX(in) ==
    {x \in XPoints(in) : \A s \in Range(in.S) : SlackChoices(in, x, s) # {}}

CheapestSlack(in, x) ==
    [s \in Range(in.S) |-> MinOf(SlackChoices(in, x, s))]

\* the points m.optimize() may end at with status OPTIMAL
Minimisers(in) ==
    LET feasible == FeasibleX(in)
        cost == [x \in feasible |-> Objective(in, x, CheapestSlack(in, x))]
        best == MinOf({cost[x] : x \in feasible})
    IN  {x \in feasible : cost[x] = best}

\* z[s].X < 1e-4: below the resolution of the grid, the slack is 0
ShortfallNearZero(zs) == zs = 0

ZeroFilled(labels) == [l \in Range(labels) |-> 0]

InitLP ==
    /\ lp_in \in LPInputs
    /\ lp_out = NoLP
    /\ portfolio = IdlePortfolio
    /\ last = NoCall
    /\ calls = 0
    /\ SimIdle
    /\ StrategyIdle

\* if m.Status == GRB.OPTIMAL
SolveOptimal ==
    /\ lp_out = NoLP
    /\ \E x \in Minimisers(lp_in) :
          LET z == CheapestSlack(lp_in, x)
          IN  lp_out' = [quantities |-> x,
                         total_cost |-> PremiumSum(lp_in, lp_in.Is, x),
                         shortfalls |-> z,
                         floor_met |-> \A s \in Range(lp_in.S) :
                                           ShortfallNearZero(z[s]),
                         status |-> "optimal"]
    /\ UNCHANGED <<params, today, lp_in, portfolio, last, calls, market, row, pc, steps>>

\* elif m.Status == GRB.INFEASIBLE
SolveInfeasible ==
    /\ lp_out = NoLP
    /\ FeasibleX(lp_in) = {}
    /\ lp_out' = [quantities |-> ZeroFilled(lp_in.Is),
                  total_cost |-> 0,
                  shortfalls |-> ZeroFilled(lp_in.S),
                  floor_met |-> FALSE,
                  status |-> "infeasible"]
    /\ UNCHANGED <<params, today, lp_in, portfolio, last, calls, market, row, pc, steps>>

\* else: any other status of an infeasible model
SolveError ==
    /\ lp_out = NoLP
    /\ FeasibleX(lp_in) = {}
    /\ lp_out' = [quantities |-> ZeroFilled(lp_in.Is),
                  total_cost |-> 0,
                  shortfalls |-> ZeroFilled(lp_in.S),
                  floor_met |-> FALSE,
                  status |-> "error"]
    /\ UNCHANGED <<params, today, lp_in, portfolio, last, calls, market, row, pc, steps>>

NextLP == SolveOptimal \/ SolveInfeasible \/ SolveError

SpecLP == InitLP /\ [][NextLP]_vars

----------------------------------------------------------------------------
(* strategies.py: what the strategy functions share                        *)
(*                                                                         *)
(* Fixed point: a premium percentage is an integer number of 1/PctDen, the *)
(* square root of the time to expiry an integer number of 1/TfDen (rounded *)
(* down), a strike ratio and an OTM level an integer number of hundredths. *)
(* A money amount that the code computes as a product with such a factor   *)
(* is rounded down to the money unit.                                      *)

MaxStrategyCalls == 2
MaxDay == 3

PctDen == 100000
TfDen == 1000
DEFAULT_VIX_FOR_PRICING == 20
DEFAULT_OPTION_QUANTITY == 1

\* params.get(key) of a key that is absent; dates are numbered from 1
None == 0

Days == 1..MaxDay

Min(a, b) == IF a <= b THEN a ELSE b

\* the least integer >= n / d, for d > 0 and n >= 0
CeilDiv(n, d) == (n + d - 1) \div d

\* x ** 0.5 on the integers, rounded down: the root lies in lo..hi
RECURSIVE ISqrtIn(_, _, _)
ISqrtIn(n, lo, hi) ==
    IF lo >= hi THEN lo
    ELSE LET mid == (lo + hi + 1) \div 2
         IN  IF mid * mid <= n THEN ISqrtIn(n, mid, hi)
             ELSE ISqrtIn(n, lo, mid - 1)

ISqrt(n) == ISqrtIn(n, 0, Min(n, 40000))

\* what market.get_vix(date) does when the strategy calls it: it returns a
\* value, or it raises (Market.get_vix raises ValueError; a mapping-backed
\* market raises KeyError), or the market has no get_vix attribute
VixReadings ==
    {[kind |-> "value", vix |-> 40], [kind |-> "KeyError"],
     [kind |-> "ValueError"], [kind |-> "no get_vix"]}

\* current_vix = DEFAULT_VIX_FOR_PRICING; if hasattr(market, "get_vix"):
\* try: current_vix = market.get_vix(...) except (KeyError, AttributeError)
VixLookupRaises(reading) == reading.kind = "ValueError"

VixLookup(reading) ==
    IF reading.kind = "value" THEN reading.vix ELSE DEFAULT_VIX_FOR_PRICING

\* the result is the premium as a fraction of the notional, in 1/PctDen
estimate_put_premium(strike, spot, days_to_expiry, vix) ==
    LET time_factor == ISqrt((days_to_expiry * TfDen * TfDen) \div 365)
        premium_pct ==
            IF strike < spot
            THEN ((spot - strike) * vix * time_factor * 4) \div (spot * 10)
            ELSE ((strike - spot) * PctDen) \div spot
                 + (vix * time_factor) \div 10
    IN  Max(premium_pct, PctDen \div 1000)

----------------------------------------------------------------------------
(* strategies.py: fixed_floor_lp_strategy                                  *)
(*                                                                         *)
(* The LP is called with Q, K in money units, p in 1/PDen money units, and *)
(* returns total_cost in 1/LPCostDen money units (see solve_fixed_floor_lp *)
(* above); the strategy returns that total_cost unchanged.                 *)

LPCostDen == PDen * XDen

\* every result solve_fixed_floor_lp can return for the arguments in
Solutions(in) ==
    LET feasible == FeasibleX(in)
    IN  IF feasible = {}
        THEN {[quantities |-> ZeroFilled(in.Is), total_cost |-> 0,
               shortfalls |-> ZeroFilled(in.S), floor_met |-> FALSE,
               status |-> st] : st \in {"infeasible", "error"}}
        ELSE {[quantities |-> x,
               total_cost |-> PremiumSum(in, in.Is, x),
               shortfalls |-> CheapestSlack(in, x),
               floor_met |-> \A s \in Range(in.S) :
                                 ShortfallNearZero(CheapestSlack(in, x)[s]),
               status |-> "optimal"] : x \in Minimisers(in)}

\* Is = [f"K{int(ratio * 100)}" for ratio in strike_ratios]
StrikeLabel(ratio) == "K" \o ToString(ratio)

RECURSIVE StrikeLabels(_)
StrikeLabels(strike_ratios) ==
    IF strike_ratios = <<>> THEN <<>>
    ELSE <<StrikeLabel(Head(strike_ratios))>>
         \o StrikeLabels(Tail(strike_ratios))

\* K = {f"K{int(ratio * 100)}": current_price * ratio for ratio in ...}
RECURSIVE StrikeDict(_, _)
StrikeDict(strike_ratios, current_price) ==
    IF strike_ratios = <<>> THEN <<>>
    ELSE StrikeDict(Tail(strike_ratios), current_price)
         @@ (StrikeLabel(Head(strike_ratios)) :>
                 (current_price * Head(strike_ratios)) \div 100)

\* p[label] = premium_pct * Q, in 1/PDen money units
RECURSIVE PremiumDict(_, _, _, _, _, _)
PremiumDict(labels, K, current_price, expiry_days, current_vix, Q) ==
    IF labels = <<>> THEN <<>>
    ELSE PremiumDict(Tail(labels), K, current_price, expiry_days,
                     current_vix, Q)
         @@ (Head(labels) :>
                 (estimate_put_premium(K[Head(labels)], current_price,
                                       expiry_days, current_vix) * Q)
                     \div (PctDen \div PDen))

\* the arguments the strategy passes to solve_fixed_floor_lp
FixedFloorLPInput(self, current_price, prm, current_vix) ==
    LET Q == self.equity_value + self.cash
        Is == StrikeLabels(prm.strike_ratios)
        K == StrikeDict(prm.strike_ratios, current_price)
    IN  [Is |-> Is, S |-> prm.scenario_returns, K |-> K,
         p |-> PremiumDict(Is, K, current_price, prm.expiry_days,
                           current_vix, Q),
         Q |-> Q, r |-> LPReturns, L |-> prm.floor_ratio]

\* if last_action is not None and (current_date - last_action).days < ...
WithinHedgeInterval(prm, current_date) ==
    /\ prm.last_fixed_floor_action # None
    /\ current_date - prm.last_fixed_floor_action < prm.hedge_interval

\* equity_to_sell = (total_cost - cash) * 1.01, rounded up to the money unit;
\* cost is in 1/den money units, and cost - cash * den > 0
EquityToSell(cost, den, cash) ==
    LET cash_deficit == cost - cash * den
        unit == 100 * den
    IN  (cash_deficit \div unit) * 101
        + CeilDiv((cash_deficit % unit) * 101, unit)

\* the cash management block: the portfolio after it, and whether the round
\* is skipped for lack of equity
RebalanceWithFee(self, cost, den) ==
    LET equity_to_sell == EquityToSell(cost, den, self.cash)
    IN  IF self.cash * den < cost /\ self.equity_value >= equity_to_sell
        THEN [self |-> [self EXCEPT
                          !.equity_value = @ - equity_to_sell,
                          !.cash = @ + equity_to_sell - 1],
              skipped |-> FALSE]
        ELSE [self |-> self, skipped |-> self.cash * den < cost]

Rebalance(self, cost, den) ==
    LET equity_to_sell == EquityToSell(cost, den, self.cash)
    IN  IF self.cash * den < cost
        THEN IF self.equity_value >= equity_to_sell
             THEN [self |-> [self EXCEPT
                               !.equity_value = @ - equity_to_sell,
                               !.cash = @ + equity_to_sell],
                   skipped |-> FALSE]
             ELSE [self |-> self, skipped |-> TRUE]
        ELSE [self |-> self, skipped |-> FALSE]

\* for label, quantity in solution["quantities"].items(): if quantity > 0.01:
\* buy_put(strike, expiry, premium, quantity=int(quantity))
RECURSIVE FixedFloorPurchases(_, _, _, _, _, _)
FixedFloorPurchases(self, labels, in, quantities, expiry_date, purchased) ==
    IF labels = <<>> THEN [self |-> self, options_purchased |-> purchased]
    ELSE LET label == Head(labels)
             quantity == quantities[label]
         IN  IF quantity * 100 > XDen
             THEN LET b == buy_put(self, in.K[label], in.p[label] \div PDen,
                                   expiry_date, quantity \div XDen, TRUE)
                  IN  IF b.raised
                      THEN [self |-> self, options_purchased |-> purchased]
                      ELSE FixedFloorPurchases(b.self, Tail(labels), in,
                                               quantities, expiry_date,
                                               purchased + 1)
             ELSE FixedFloorPurchases(self, Tail(labels), in, quantities,
                                      expiry_date, purchased)

FixedFloorSkipped(self, prm, note) ==
    [self |-> self, params |-> prm, raised |-> FALSE,
     ret |-> [total_cost |-> 0, action |-> "skipped", note |-> note]]

\* the part of the function before the LP is solved
fixed_floor_gate_ignored(self, current_date, prm, reading) ==
    IF VixLookupRaises(reading)
    THEN [done |-> TRUE,
          out |-> [self |-> self, params |-> prm, raised |-> TRUE,
                   ret |-> [action |-> "raised"]]]
    ELSE [done |-> FALSE]

fixed_floor_gate(self, current_date, prm, reading) ==
    IF WithinHedgeInterval(prm, current_date)
    THEN [done |-> TRUE, out |-> FixedFloorSkipped(self, prm, "interval")]
    ELSE IF VixLookupRaises(reading)
    THEN [done |-> TRUE,
          out |-> [self |-> self, params |-> prm, raised |-> TRUE,
                   ret |-> [action |-> "raised"]]]
    ELSE [done |-> FALSE]

\* the part of the function after the LP is solved; in holds the arguments
\* of the LP call and solution its result
fixed_floor_lp_strategy(self, current_date, prm, in, solution) ==
    IF solution.status # "optimal" \/ solution.total_cost = 0
    THEN FixedFloorSkipped(self, prm, solution.status)
    ELSE LET funded == Rebalance(self, solution.total_cost, LPCostDen)
         IN  IF funded.skipped
             THEN FixedFloorSkipped(self, prm, "Insufficient funds")
             ELSE LET bought == FixedFloorPurchases(
                                    funded.self, in.Is, in,
                                    solution.quantities,
                                    current_date + prm.expiry_days, 0)
                  IN  [self |-> bought.self,
                       params |-> [prm EXCEPT
                                     !.last_fixed_floor_action = current_date],
                       raised |-> FALSE,
                       ret |-> [total_cost |-> solution.total_cost,
                                action |-> "executed",
                                options_purchased |->
                                    bought.options_purchased,
                                floor_met |-> solution.floor_met]]

\* the params dicts the fixed-floor strategy is run with
FixedFloorParams ==
    {[strategy |-> "fixed_floor_lp", floor_ratio |-> 2,
      hedge_interval |-> 2, expiry_days |-> 2,
      scenario_returns |-> S, strike_ratios |-> ratios,
      last_fixed_floor_action |-> None] :
        S \in {<<"crash", "mild", "up">>, <<"up">>},
        ratios \in {<<90>>, <<90, 100>>}}

FixedFloorPrices == {20000, 200000}

StrategyPortfolios ==
    {NewPortfolio(225000, 1, c) : c \in {0, 3000, -223000}}

\* the VIX values the pricing can end up with
VixValues == {VixLookup(reading) : reading \in VixReadings}

\* one call of fixed_floor_lp_strategy(portfolio, price, date, params, market)
CallFixedFloorLPStrategy ==
    /\ params.strategy = "fixed_floor_lp"
    /\ calls < MaxStrategyCalls
    /\ \E current_price \in FixedFloorPrices, current_vix \in VixValues :
          \E in \in {FixedFloorLPInput(portfolio, current_price, params,
                                        current_vix)} :
              \E solutions \in {Solutions(in)},
                 current_date \in Max(today, 1)..MaxDay,
                 reading \in VixReadings :
                 LET gate == fixed_floor_gate(portfolio, current_date,
                                              params, reading)
                 IN  /\ VixLookup(reading) = current_vix
                     /\ today' = current_date
                     /\ IF gate.done
                        THEN /\ portfolio' = gate.out.self
                             /\ params' = gate.out.params
                             /\ last' = [op |-> "fixed_floor_lp_strategy",
                                         current_date |-> current_date,
                                         lp_called |-> FALSE,
                                         raised |-> gate.out.raised,
                                         ret |-> gate.out.ret]
                             /\ UNCHANGED <<lp_in, lp_out>>
                        ELSE \E solution \in solutions :
                                LET out == fixed_floor_lp_strategy(
                                               portfolio, current_date,
                                               params, in, solution)
                                IN  /\ portfolio' = out.self
                                    /\ params' = out.params
                                    /\ last' =
                                         [op |-> "fixed_floor_lp_strategy",
                                          current_date |-> current_date,
                                          lp_called |-> TRUE,
                                          raised |-> out.raised,
                                          ret |-> out.ret]
                                    /\ lp_in' = in
                                    /\ lp_out' = solution
    /\ calls' = calls + 1
    /\ UNCHANGED <<market, row, pc, steps>>

----------------------------------------------------------------------------
(* vix_floor_lp.py: solve_vix_ladder_lp                                    *)
(*                                                                         *)
(* Fixed point: V0, S0, strikes, premiums and the budget are money units;  *)
(* vix is in index points and beta in 1/BetaDen; a budget fraction is an   *)
(* integer number of 1/FracDen, an OTM bound and transaction_cost_rate an  *)
(* integer number of hundredths; a cost c[j] is in 1/100 money units; a    *)
(* spend (rung budget, spent, total_cost) is in 1/FracDen money units.  A  *)
(* quantity is the exact fraction num / den.                               *)
(*                                                                         *)
(* Gurobi is modelled by what m.optimize() guarantees: status OPTIMAL with *)
(* any minimiser of the objective over the feasible set, a non-optimal     *)
(* status for an empty feasible set.  The LP variables range over the      *)
(* quantities whose spend is a multiple of total_budget / FracDen.         *)

MaxGg == 20

BetaDen == 2
FracDen == 20

PutOption(strike, premium, expiry_years) ==
    [strike |-> strike, premium |-> premium, expiry_years |-> expiry_years]

\* an item of ladder_budget_allocations: a bare fraction or a triple
BareFraction(budget_frac) == [kind |-> "float", frac |-> budget_frac]
Triple(otm_min, otm_max, budget_frac) ==
    [kind |-> "tuple", otm_min |-> otm_min, otm_max |-> otm_max,
     frac |-> budget_frac]

\* if ladder_budget_allocations is None
DefaultLadder ==
    <<Triple(5, 15, 1), Triple(15, 25, 3), Triple(25, 40, 6),
      Triple(40, 100, 10)>>

\* budget_fracs.append(item[2]) for a tuple or list, append(item) otherwise
BudgetFracs(ladder_budget_allocations) ==
    [k \in 1..Len(ladder_budget_allocations) |->
        ladder_budget_allocations[k].frac]

\* total_budget = V0 * base_budget_pct * vix_factor * beta_factor
TotalBudgetUnfloored(V0, vix, beta) ==
    (V0 * vix * beta) \div (100 * 20 * BetaDen)

TotalBudget(V0, vix, beta) ==
    (V0 * vix * Max(BetaDen, beta)) \div (100 * 20 * BetaDen)

\* c = [opt.premium * (1 + transaction_cost_rate) for opt in options]
Costs(options, transaction_cost_rate) ==
    [j \in 1..Len(options) |->
        options[j].premium * (100 + transaction_cost_rate)]

ladder_rungs ==
    <<[name |-> "shallow", otm_min |-> 5, otm_max |-> 15],
      [name |-> "medium", otm_min |-> 15, otm_max |-> 25],
      [name |-> "deep", otm_min |-> 25, otm_max |-> 40],
      [name |-> "catastrophic", otm_min |-> 40, otm_max |-> 100]>>

\* otm_min <= (S0 - opt.strike) / S0 < otm_max, for S0 > 0
InRung(opt, S0, k) ==
    /\ ladder_rungs[k].otm_min * S0 <= 100 * (S0 - opt.strike)
    /\ 100 * (S0 - opt.strike) < ladder_rungs[k].otm_max * S0

\* the rung the inner loop breaks at; 0 when no rung matches
RungOf(opt, S0) ==
    IF \E k \in 1..4 : InRung(opt, S0, k)
    THEN CHOOSE k \in 1..4 :
             InRung(opt, S0, k) /\ \A h \in 1..(k - 1) : ~InRung(opt, S0, h)
    ELSE 0

\* rung_indices[k], in the order of the options
RECURSIVE RungIndicesFrom(_, _, _, _)
RungIndicesFrom(options, S0, k, j) ==
    IF j > Len(options) THEN <<>>
    ELSE (IF RungOf(options[j], S0) = k THEN <<j>> ELSE <<>>)
         \o RungIndicesFrom(options, S0, k, j + 1)

rung_indices(options, S0) ==
    [k \in 1..4 |-> RungIndicesFrom(options, S0, k, 1)]

\* quantities
Quantity(num, den) == [num |-> num, den |-> den]
Zero == Quantity(0, 1)

RECURSIVE GCD(_, _)
GCD(a, b) == IF b = 0 THEN a ELSE GCD(b, a % b)

\* c[j] * x[j], in 1/FracDen money units
CostOf(c, x) ==
    LET g == GCD(c, x.den)
    IN  ((c \div g) * x.num) \div ((100 \div FracDen) * (x.den \div g))

RECURSIVE SumOver(_, _, _)
SumOver(indices, c, x) ==
    IF indices = <<>> THEN 0
    ELSE CostOf(c[Head(indices)], x[Head(indices)])
         + SumOver(Tail(indices), c, x)

\* sum(c[j] * x_sol[j] for j in range(len(options)))
TotalCost(c, x) == SumOver([j \in 1..Len(x) |-> j], c, x)

\* the quantity of option j whose spend is g * total_budget / FracDen; an
\* option that costs nothing is bought g times
GridQuantity(c, total_budget, j, g) ==
    IF c[j] > 0
    THEN Quantity((100 \div FracDen) * g * total_budget, c[j])
    ELSE Quantity(g, 1)

\* x_vars = [m.addVar(lb=0.0) ...]
LadderPoints(in, c, total_budget) ==
    {[j \in 1..Len(in.options) |-> GridQuantity(c, total_budget, j, g[j])] :
        g \in {h \in [1..Len(in.options) -> 0..MaxGg] :
                  \A j \in 1..Len(in.options) : c[j] = 0 => h[j] <= 1}}

\* the constraints budget_limit and ladder_<name>
LadderFeasible(in, c, total_budget, x) ==
    LET budget_fracs == BudgetFracs(in.ladder_budget_allocations)
        indices == rung_indices(in.options, in.S0)
    IN  /\ TotalCost(c, x) <= FracDen * total_budget
        /\ \A k \in 1..4 :
               (indices[k] # <<>> /\ budget_fracs[k] > 0) =>
                   SumOver(indices[k], c, x) >= total_budget * budget_fracs[k]

LadderMinimisersAnyFeasible(in) ==
    LET c == Costs(in.options, in.transaction_cost_rate)
        total_budget == TotalBudget(in.V0, in.vix, in.beta)
    IN  {x \in LadderPoints(in, c, total_budget) :
            LadderFeasible(in, c, total_budget, x)}

\* the points m.optimize() may end at with status OPTIMAL
LadderMinimisers(in) ==
    LET c == Costs(in.options, in.transaction_cost_rate)
        total_budget == TotalBudget(in.V0, in.vix, in.beta)
        feasible == {x \in LadderPoints(in, c, total_budget) :
                        LadderFeasible(in, c, total_budget, x)}
        costs == {TotalCost(c, x) : x \in feasible}
    IN  IF feasible = {} THEN {}
        ELSE {x \in feasible : TotalCost(c, x) = MinOf(costs)}

\* sorted(rung_indices[k], key=lambda j: c[j]): stable, cheapest first
RECURSIVE InsertByCost(_, _, _)
InsertByCost(sorted, j, c) ==
    IF sorted = <<>> THEN <<j>>
    ELSE IF c[Head(sorted)] <= c[j]
         THEN <<Head(sorted)>> \o InsertByCost(Tail(sorted), j, c)
         ELSE <<j>> \o sorted

RECURSIVE SortByCost(_, _, _)
SortByCost(indices, c, sorted) ==
    IF indices = <<>> THEN sorted
    ELSE SortByCost(Tail(indices), c, InsertByCost(sorted, Head(indices), c))

RECURSIVE GreedyRungHalf(_, _, _, _, _)
GreedyRungHalf(rung_opts, c, rung_budget, spent, x_sol) ==
    IF rung_opts = <<>> \/ spent >= rung_budget
    THEN [x_sol |-> x_sol, raised |-> FALSE]
    ELSE LET j == Head(rung_opts)
             quantity == Quantity((100 \div FracDen) * (rung_budget - spent),
                                  2 * c[j])
         IN  IF c[j] = 0
             THEN [x_sol |-> x_sol, raised |-> TRUE]
             ELSE GreedyRungHalf(Tail(rung_opts), c, rung_budget,
                                 rung_budget,
                                 [x_sol EXCEPT ![j] = quantity])

\* for j in rung_opts: if spent >= rung_budget: break; quantity = ...
RECURSIVE GreedyRung(_, _, _, _, _)
GreedyRung(rung_opts, c, rung_budget, spent, x_sol) ==
    IF rung_opts = <<>> \/ spent >= rung_budget
    THEN [x_sol |-> x_sol, raised |-> FALSE]
    ELSE LET j == Head(rung_opts)
             quantity == Quantity((100 \div FracDen) * (rung_budget - spent),
                                  c[j])
         IN  IF c[j] = 0
             THEN [x_sol |-> x_sol, raised |-> TRUE]
             ELSE GreedyRung(Tail(rung_opts), c, rung_budget,
                             spent + CostOf(c[j], quantity),
                             [x_sol EXCEPT ![j] = quantity])

\* for k, (name, _, _) in enumerate(ladder_rungs): ...
RECURSIVE GreedyFrom(_, _, _, _, _)
GreedyFrom(k, in, c, total_budget, x_sol) ==
    IF k > 4 THEN [x_sol |-> x_sol, raised |-> FALSE]
    ELSE LET budget_frac == BudgetFracs(in.ladder_budget_allocations)[k]
             indices == rung_indices(in.options, in.S0)[k]
         IN  IF indices = <<>> \/ budget_frac <= 0
             THEN GreedyFrom(k + 1, in, c, total_budget, x_sol)
             ELSE LET rung == GreedyRung(SortByCost(indices, c, <<>>), c,
                                         total_budget * budget_frac, 0, x_sol)
                  IN  IF rung.raised THEN rung
                      ELSE GreedyFrom(k + 1, in, c, total_budget, rung.x_sol)

\* what the function returns, and what it does instead of returning
LadderReturn(x_sol, cost, total_budget, path) ==
    [status |-> "returned", quantities |-> x_sol, total_cost |-> cost,
     budget_allocated |-> total_budget, path |-> path]

LadderRaise(error) == [status |-> "raised", error |-> error]

\* if not options: return [], 0.0, 0.0
LadderEmptyResult == LadderReturn(<<>>, 0, 0, "empty")

\* if m.Status == GRB.OPTIMAL: return x_sol, total_cost, total_budget
LadderLPResults(in) ==
    LET c == Costs(in.options, in.transaction_cost_rate)
        total_budget == TotalBudget(in.V0, in.vix, in.beta)
    IN  {LadderReturn(x, TotalCost(c, x), total_budget, "lp") :
            x \in LadderMinimisers(in)}

\* the greedy fallback
LadderGreedyResult(in) ==
    LET c == Costs(in.options, in.transaction_cost_rate)
        total_budget == TotalBudget(in.V0, in.vix, in.beta)
        greedy == GreedyFrom(1, in, c, total_budget,
                             [j \in 1..Len(in.options) |-> Zero])
    IN  IF greedy.raised THEN LadderRaise("ZeroDivisionError")
        ELSE LadderReturn(greedy.x_sol, TotalCost(c, greedy.x_sol),
                          total_budget, "greedy")

\* every way a call can end: with Gurobi and an optimal status, or (no
\* Gurobi, or a status that is not optimal) with the greedy fallback
solve_vix_ladder_lp(in) ==
    IF in.options = <<>> THEN {LadderEmptyResult}
    ELSE LadderLPResults(in) \cup {LadderGreedyResult(in)}

\* the candidate lists of a call: strikes at 3%, 5%, 10%, 15%, 25%, 40% and
\* 100% OTM of S0 = 4000, premiums 0, 20 and 40
LadderOptionLists ==
    {<<>>,
     <<PutOption(3600, 40, 1)>>,
     <<PutOption(3600, 40, 1), PutOption(3800, 20, 1)>>,
     <<PutOption(3600, 20, 1), PutOption(3000, 20, 1)>>,
     <<PutOption(3400, 20, 1)>>,
     <<PutOption(3000, 40, 1)>>,
     <<PutOption(2400, 20, 1)>>,
     <<PutOption(3880, 20, 1), PutOption(3600, 20, 1)>>,
     <<PutOption(0, 20, 1)>>,
     <<PutOption(3600, 0, 1)>>,
     <<PutOption(3600, 0, 1), PutOption(3800, 20, 1)>>,
     <<PutOption(3880, 0, 1)>>,
     <<PutOption(3800, 40, 1), PutOption(3000, 20, 1),
       PutOption(2400, 20, 1)>>}

LadderAllocations ==
    {DefaultLadder,
     <<BareFraction(1), BareFraction(3), BareFraction(6), BareFraction(10)>>,
     <<Triple(0, 100, 1), Triple(0, 100, 3), Triple(0, 100, 6),
       Triple(0, 100, 10)>>,
     <<BareFraction(10), BareFraction(10), BareFraction(10),
       BareFraction(10)>>,
     <<BareFraction(0), BareFraction(0), BareFraction(0), BareFraction(20)>>}

LadderValues == {0, 4000}
LadderSpots == {4000}
LadderBetas == {1, 2, 3}
LadderVixes == {20, 40}
LadderCostRates == {0, 5}

LadderInputs ==
    [options : LadderOptionLists, V0 : LadderValues, S0 : LadderSpots,
     beta : LadderBetas, vix : LadderVixes,
     ladder_budget_allocations : LadderAllocations,
     transaction_cost_rate : LadderCostRates]

InitLadder ==
    /\ lp_in \in LadderInputs
    /\ lp_out = NoLP
    /\ portfolio = IdlePortfolio
    /\ last = NoCall
    /\ calls = 0
    /\ SimIdle
    /\ StrategyIdle

\* if not options: return [], 0.0, 0.0
LadderReturnsEmpty ==
    /\ lp_out = NoLP
    /\ lp_in.options = <<>>
    /\ lp_out' = LadderEmptyResult
    /\ UNCHANGED <<lp_in, portfolio, last, calls, market, row, pc, steps,
                   params, today>>

\* gurobipy is imported and m.Status == GRB.OPTIMAL
LadderSolvesLP ==
    /\ lp_out = NoLP
    /\ lp_in.options # <<>>
    /\ lp_out' \in LadderLPResults(lp_in)
    /\ UNCHANGED <<lp_in, portfolio, last, calls, market, row, pc, steps,
                   params, today>>

\* ImportError, or a status other than OPTIMAL (the model is infeasible):
\* the greedy fallback runs and returns
LadderFallsBack ==
    /\ lp_out = NoLP
    /\ lp_in.options # <<>>
    /\ LadderGreedyResult(lp_in).status = "returned"
    /\ lp_out' = LadderGreedyResult(lp_in)
    /\ UNCHANGED <<lp_in, portfolio, last, calls, market, row, pc, steps,
                   params, today>>

\* the greedy fallback runs and divides by a zero cost
LadderFallbackRaises ==
    /\ lp_out = NoLP
    /\ lp_in.options # <<>>
    /\ LadderGreedyResult(lp_in).status = "raised"
    /\ lp_out' = LadderGreedyResult(lp_in)
    /\ UNCHANGED <<lp_in, portfolio, last, calls, market, row, pc, steps,
                   params, today>>

NextLadder ==
    \/ LadderReturnsEmpty
    \/ LadderSolvesLP
    \/ LadderFallsBack
    \/ LadderFallbackRaises

SpecLadder == InitLadder /\ [][NextLadder]_vars

----------------------------------------------------------------------------
(* strategies.py: quarterly_protective_put_strategy                         *)

MaxQuarterlyCalls == 3

\* last_action is None or (current_date - last_action).days >= hedge_interval
QuarterlyDueStrict(prm, current_date) ==
    \/ prm.last_action = None
    \/ current_date - prm.last_action > prm.hedge_interval

QuarterlyDue(prm, current_date) ==
    \/ prm.last_action = None
    \/ current_date - prm.last_action >= prm.hedge_interval

\* premium = portfolio.equity_value * premium_pct, rounded down to the unit
PremiumOf(self, strike, current_price, expiry_days, current_vix) ==
    (self.equity_value
        * estimate_put_premium(strike, current_price, expiry_days,
                               current_vix)) \div PctDen

\* the result is the portfolio and the params dict after the call, and
\* whether the call raised (the ValueError of get_vix is not caught)
quarterly_protective_put_strategy(self, current_price, current_date, prm, reading) ==
    IF ~QuarterlyDue(prm, current_date)
    THEN [self |-> self, params |-> prm, raised |-> FALSE]
    ELSE IF VixLookupRaises(reading)
    THEN [self |-> self, params |-> prm, raised |-> TRUE]
    ELSE LET strike == (current_price * prm.strike_ratio) \div 100
             premium == PremiumOf(self, strike, current_price,
                                  prm.expiry_days, VixLookup(reading))
             expiry == current_date + prm.expiry_days
             bought == buy_put(self, strike, premium, expiry,
                               DEFAULT_OPTION_QUANTITY, TRUE)
         IN  [self |-> bought.self,
              params |-> [prm EXCEPT !.last_action = current_date],
              raised |-> bought.raised]

\* the params dicts the quarterly strategy is run with
QuarterlyParams ==
    {[strategy |-> "quarterly", hedge_interval |-> h, strike_ratio |-> r,
      expiry_days |-> x, last_action |-> None] :
        h \in {0, 2}, r \in {90, 100}, x \in {1, 3}}

StrategyPrices == {20000, 21000}

\* one call of quarterly_protective_put_strategy(portfolio, price, date,
\* params, market), at a date not before the date of the call before it
CallQuarterlyStrategy ==
    /\ params.strategy = "quarterly"
    /\ calls < MaxQuarterlyCalls
    /\ \E current_price \in StrategyPrices,
          current_date \in Max(today, 1)..MaxDay,
          reading \in VixReadings :
          LET out == quarterly_protective_put_strategy(
                         portfolio, current_price, current_date, params,
                         reading)
          IN  /\ portfolio' = out.self
              /\ params' = out.params
              /\ today' = current_date
              /\ last' = [op |-> "quarterly_protective_put_strategy",
                          current_price |-> current_price,
                          current_date |-> current_date,
                          raised |-> out.raised]
    /\ calls' = calls + 1
    /\ UNCHANGED <<market, row, pc, steps, lp_in, lp_out>>
----------------------------------------------------------------------------
(* strategies.py: conditional_hedging_strategy                              *)
(*                                                                          *)
(* The market data the function reads is summarised by what it computes    *)
(* from it: the number of rows up to the date, the trailing return (in     *)
(* percent), and the recent and the long-term standard deviation of the    *)
(* returns (in one unit). vol_multiplier is an integer number of 1/VolDen. *)

MaxConditionalCalls == 2
VolDen == 10
ANNUAL_TRADING_DAYS == 252
MIN_HISTORICAL_DAYS == 50

\* market.data.loc[:ts_date]: rows, recent_return, recent_vol, long_term_vol
MarketViews ==
    [rows : {10, 60}, recent_return : {-6, -5, 0}, recent_vol : {2, 4},
     long_term_vol : {2}]

\* len(recent_data) < lookback_days or len(past_data) < MIN_HISTORICAL_DAYS
TooLittleData(view, prm) ==
    \/ Min(view.rows, prm.lookback_days) < prm.lookback_days
    \/ Min(view.rows, ANNUAL_TRADING_DAYS) < MIN_HISTORICAL_DAYS

risk_trigger(view, prm) ==
    LET price_drop_trigger == view.recent_return <= prm.drop_threshold
        vol_spike_trigger ==
            view.recent_vol * VolDen > prm.vol_multiplier * view.long_term_vol
    IN  price_drop_trigger \/ vol_spike_trigger

\* [o for o in portfolio.options if o.expiry > current_date]
active_puts_from_tomorrow(self, current_date) ==
    SelectSeq(self.options, LAMBDA o : o.expiry > current_date + 1)

active_puts(self, current_date) ==
    SelectSeq(self.options, LAMBDA o : o.expiry > current_date)

\* the result is the portfolio after the call and whether the call raised
\* (the ValueError of get_vix is not caught); params is only read
conditional_hedging_strategy(self, current_price, current_date, prm, view, reading) ==
    IF TooLittleData(view, prm)
    THEN [self |-> self, raised |-> FALSE]
    ELSE IF ~(risk_trigger(view, prm)
              /\ active_puts(self, current_date) = <<>>)
    THEN [self |-> self, raised |-> FALSE]
    ELSE IF VixLookupRaises(reading)
    THEN [self |-> self, raised |-> TRUE]
    ELSE LET strike == (current_price * prm.strike_ratio) \div 100
             premium == PremiumOf(self, strike, current_price,
                                  prm.expiry_days, VixLookup(reading))
             expiry == current_date + prm.expiry_days
         IN  buy_put(self, strike, premium, expiry,
                     DEFAULT_OPTION_QUANTITY, TRUE)

\* the params dicts the conditional strategy is run with
ConditionalParams ==
    {[strategy |-> "conditional", lookback_days |-> l,
      drop_threshold |-> -5, vol_multiplier |-> 15, strike_ratio |-> 90,
      expiry_days |-> x] :
        l \in {20, 70}, x \in {1, 2}}

\* one call of conditional_hedging_strategy(portfolio, price, date, params,
\* market), at a date not before the date of the call before it
CallConditionalStrategy ==
    /\ params.strategy = "conditional"
    /\ calls < MaxConditionalCalls
    /\ \E current_price \in StrategyPrices,
          current_date \in Max(today, 1)..MaxDay,
          view \in MarketViews,
          reading \in VixReadings :
          LET out == conditional_hedging_strategy(
                         portfolio, current_price, current_date, params,
                         view, reading)
          IN  /\ portfolio' = out.self
              /\ today' = current_date
              /\ last' = [op |-> "conditional_hedging_strategy",
                          current_date |-> current_date,
                          view |-> view,
                          raised |-> out.raised]
    /\ calls' = calls + 1
    /\ UNCHANGED <<params, market, row, pc, steps, lp_in, lp_out>>
----------------------------------------------------------------------------
(* strategies.py: vix_ladder_strategy                                       *)
(*                                                                          *)
(* strike_density and the OTM levels are hundredths; lp_cost and the        *)
(* returned total cost are in 1/FracDen money units, as the total_cost of   *)
(* solve_vix_ladder_lp.  params["lp_cost"] and params["last_lp_hedge"] are  *)
(* absent until a call adds them: tracking tells whether they are there.    *)

\* vix = params.get("vix"); if vix is None: vix = market.get_vix(...): no
\* exception of get_vix is caught here, and a market without get_vix
\* raises AttributeError
LadderVixRaises(prm, reading) == prm.vix = None /\ reading.kind # "value"

LadderVix(prm, reading) == IF prm.vix # None THEN prm.vix ELSE reading.vix

\* otm = min_otm; while otm <= max_otm: otm_levels.append(otm); otm += ...
RECURSIVE OtmLevels(_, _)
OtmLevels(otm, strike_density) ==
    IF otm <= 60
    THEN <<otm>> \o OtmLevels(otm + strike_density, strike_density)
    ELSE <<>>

\* option_chain: strike = current_price * (1 - otm), premium = pct * V0
OptionChain(current_price, V0, vix, prm) ==
    LET otm_levels == OtmLevels(5, prm.strike_density)
    IN  [j \in 1..Len(otm_levels) |->
            LET strike == (current_price * (100 - otm_levels[j])) \div 100
            IN  PutOption(strike,
                          (estimate_put_premium(strike, current_price,
                                                prm.expiry_days, vix) * V0)
                              \div PctDen,
                          prm.expiry_days)]

\* the arguments the strategy passes to solve_vix_ladder_lp
VixLadderLPInput(self, current_price, prm, vix) ==
    LET V0 == self.equity_value + self.cash
    IN  [options |-> OptionChain(current_price, V0, vix, prm),
         V0 |-> V0, S0 |-> current_price, beta |-> self.beta * BetaDen,
         vix |-> vix,
         ladder_budget_allocations |-> prm.ladder_budget_allocations,
         transaction_cost_rate |-> prm.transaction_cost_rate]

\* if "lp_cost" not in params: ...; if "last_lp_hedge" not in params: ...
WithTracking(prm) ==
    IF prm.tracking THEN prm
    ELSE [prm EXCEPT !.tracking = TRUE, !.lp_cost = 0,
                     !.last_lp_hedge = None]

\* if total_cost > 0: the cash management block
LadderRebalance(self, cost) ==
    IF cost > 0 THEN Rebalance(self, cost, FracDen)
    ELSE [self |-> self, skipped |-> FALSE]

\* for j, quantity in enumerate(quantities): if quantity > 0:
\* buy_put(strike, expiry, premium, quantity=int(quantity))
RECURSIVE LadderPurchases(_, _, _, _, _)
LadderPurchases(self, j, option_chain, quantities, expiry_date) ==
    IF j > Len(quantities) THEN self
    ELSE IF quantities[j].num > 0
    THEN LET b == buy_put(self, option_chain[j].strike,
                          option_chain[j].premium, expiry_date,
                          quantities[j].num \div quantities[j].den, TRUE)
         IN  IF b.raised THEN self
             ELSE LadderPurchases(b.self, j + 1, option_chain, quantities,
                                  expiry_date)
    ELSE LadderPurchases(self, j + 1, option_chain, quantities, expiry_date)

vix_ladder_gate_interval(self, prm, reading) ==
    IF LadderVixRaises(prm, reading)
    THEN [done |-> TRUE,
          out |-> [self |-> self, params |-> prm, raised |-> TRUE,
                   skipped |-> FALSE, ret |-> 0]]
    ELSE IF prm.last_lp_hedge # None
    THEN [done |-> TRUE,
          out |-> [self |-> self, params |-> prm, raised |-> FALSE,
                   skipped |-> FALSE, ret |-> 0]]
    ELSE [done |-> FALSE]

\* the function up to the call of solve_vix_ladder_lp: the call raises
\* before params is touched when no VIX value is to be had
vix_ladder_gate(self, prm, reading) ==
    IF LadderVixRaises(prm, reading)
    THEN [done |-> TRUE,
          out |-> [self |-> self, params |-> prm, raised |-> TRUE,
                   skipped |-> FALSE, ret |-> 0]]
    ELSE [done |-> FALSE]

\* the function from the call of solve_vix_ladder_lp on; in holds the
\* arguments of the LP call and result what it did
vix_ladder_strategy(self, current_date, prm, in, result) ==
    LET tracked == WithTracking(prm)
    IN  IF result.status = "raised"
        THEN [self |-> self, params |-> tracked, raised |-> TRUE,
              skipped |-> FALSE, ret |-> 0]
        ELSE LET funded == LadderRebalance(self, result.total_cost)
             IN  IF funded.skipped
                 THEN [self |-> self, params |-> tracked, raised |-> FALSE,
                       skipped |-> TRUE, ret |-> 0]
                 ELSE [self |-> LadderPurchases(
                                    funded.self, 1, in.options,
                                    result.quantities,
                                    current_date + prm.expiry_days),
                       params |-> [tracked EXCEPT
                                     !.lp_cost = @ + result.total_cost,
                                     !.last_lp_hedge = current_date],
                       raised |-> FALSE, skipped |-> FALSE,
                       ret |-> result.total_cost]

\* the params dicts the VIX-ladder strategy is run with
VixLadderParams ==
    {[strategy |-> "vix_ladder", vix |-> v, expiry_days |-> 2,
      strike_density |-> d, transaction_cost_rate |-> 5,
      ladder_budget_allocations |-> DefaultLadder, hedge_interval |-> 2,
      tracking |-> FALSE, lp_cost |-> 0, last_lp_hedge |-> None] :
        v \in {None, 20}, d \in {40, 60}}

\* the VIX values a call with these params can price with
LadderVixValues(prm) ==
    {LadderVix(prm, reading) :
        reading \in {r \in VixReadings : ~LadderVixRaises(prm, r)}}

\* one call of vix_ladder_strategy(portfolio, price, date, params, market),
\* at a date not before the date of the call before it
CallVixLadderStrategy ==
    /\ params.strategy = "vix_ladder"
    /\ calls < MaxStrategyCalls
    /\ \E current_price \in StrategyPrices,
          current_vix \in LadderVixValues(params) :
          \E in \in {VixLadderLPInput(portfolio, current_price, params,
                                      current_vix)} :
             \E results \in {solve_vix_ladder_lp(in)},
                current_date \in Max(today, 1)..MaxDay,
                reading \in VixReadings :
                LET gate == vix_ladder_gate(portfolio, params, reading)
                IN  /\ today' = current_date
                    /\ IF gate.done
                       THEN /\ portfolio' = gate.out.self
                            /\ params' = gate.out.params
                            /\ last' = [op |-> "vix_ladder_strategy",
                                        current_date |-> current_date,
                                        lp_called |-> FALSE,
                                        raised |-> gate.out.raised,
                                        skipped |-> gate.out.skipped,
                                        ret |-> gate.out.ret]
                            /\ UNCHANGED <<lp_in, lp_out>>
                       ELSE /\ LadderVix(params, reading) = current_vix
                            /\ \E result \in results :
                                  LET out == vix_ladder_strategy(
                                                 portfolio, current_date,
                                                 params, in, result)
                                  IN  /\ portfolio' = out.self
                                      /\ params' = out.params
                                      /\ last' =
                                           [op |-> "vix_ladder_strategy",
                                            current_date |-> current_date,
                                            lp_called |-> TRUE,
                                            raised |-> out.raised,
                                            skipped |-> out.skipped,
                                            ret |-> out.ret]
                                      /\ lp_in' = in
                                      /\ lp_out' = result
    /\ calls' = calls + 1
    /\ UNCHANGED <<market, row, pc, steps>>
----------------------------------------------------------------------------
(* Specification SpecTwoRuns: two calls of run_simulation over one market, *)
(* each with its own Portfolio and its own params dict, their loop-body    *)
(* statements interleaved in any order.  Here portfolio, params, row and   *)
(* pc hold one value per run; the strategy is the quarterly one, and the   *)
(* market has no get_vix.                                                  *)

Runs == {1, 2}

\* the params argument of the strategy call of run i: the run's own dict
SharedParams(prms, i) == prms[1]

OwnParams(prms, i) == prms[i]

\* one loop-body statement of a run, on its own portfolio and params
RunStatement(self, prm, name, r) ==
    IF name = "update_equity"
    THEN [self |-> update_equity(self, market[r].Returns), params |-> prm]
    ELSE IF name = "strategy_fn"
    THEN LET out == quarterly_protective_put_strategy(
                        self, price_of(r), date_of(r), prm,
                        [kind |-> "no get_vix"])
         IN  [self |-> out.self, params |-> out.params]
    ELSE IF name = "exercise_expired_options"
    THEN [self |-> exercise_expired_options(self, price_of(r), date_of(r)),
          params |-> prm]
    ELSE [self |-> record(self, date_of(r),
                          total_value(self, price_of(r), date_of(r))),
          params |-> prm]

\* the params dicts of the two runs
TwoRunsParams ==
    {[strategy |-> "quarterly", hedge_interval |-> h, strike_ratio |-> 90,
      expiry_days |-> 1, last_action |-> None] : h \in {0, 2}}

InitTwoRuns ==
    /\ \E b \in Betas :
          portfolio = <<NewPortfolio(8000, 1, DEFAULT_CASH),
                        NewPortfolio(8000, b, DEFAULT_CASH)>>
    /\ params \in [Runs -> TwoRunsParams]
    /\ market \in Markets
    /\ row = <<1, 1>>
    /\ pc = <<1, 1>>
    /\ steps = <<>>
    /\ last = NoCall
    /\ calls = 0
    /\ today = 0
    /\ LPIdle

\* run i executes its next loop-body statement
TwoRunsStatement(i, name) ==
    /\ row[i] <= Len(market)
    /\ LoopBody[pc[i]] = name
    /\ LET out == RunStatement(portfolio[i], OwnParams(params, i), name,
                               row[i])
       IN  /\ portfolio' = [portfolio EXCEPT ![i] = out.self]
           /\ params' = [params EXCEPT ![i] = out.params]
    /\ IF pc[i] < Len(LoopBody)
       THEN pc' = [pc EXCEPT ![i] = @ + 1] /\ row' = row
       ELSE pc' = [pc EXCEPT ![i] = 1] /\ row' = [row EXCEPT ![i] = @ + 1]
    /\ last' = [op |-> name, run |-> i]
    /\ UNCHANGED <<market, steps, calls, today, lp_in, lp_out>>

TwoRunsUpdateEquity == \E i \in Runs : TwoRunsStatement(i, "update_equity")
TwoRunsStrategy == \E i \in Runs : TwoRunsStatement(i, "strategy_fn")
TwoRunsExercise ==
    \E i \in Runs : TwoRunsStatement(i, "exercise_expired_options")
TwoRunsRecord == \E i \in Runs : TwoRunsStatement(i, "record")

NextTwoRuns ==
    \/ TwoRunsUpdateEquity
    \/ TwoRunsStrategy
    \/ TwoRunsExercise
    \/ TwoRunsRecord

SpecTwoRuns == InitTwoRuns /\ [][NextTwoRuns]_vars
----------------------------------------------------------------------------
(* Specification SpecStrategies: a portfolio is hedged by repeated calls of *)
(* one strategy function, at non-decreasing dates, with one params dict     *)

StrategyParams == FixedFloorParams \cup QuarterlyParams
        \cup ConditionalParams
        \cup VixLadderParams

InitStrategies ==
    /\ portfolio \in StrategyPortfolios
    /\ params \in StrategyParams
    /\ today = 0
    /\ last = NoCall
    /\ calls = 0
    /\ SimIdle
    /\ LPIdle

NextStrategies ==
    \/ CallFixedFloorLPStrategy
    \/ CallQuarterlyStrategy
    \/ CallConditionalStrategy
    \/ CallVixLadderStrategy

SpecStrategies == InitStrategies /\ [][NextStrategies]_vars

----------------------------------------------------------------------------
(* Properties of run_simulation (SpecSim) *)

C1_Order ==
    <<"update_equity", "strategy_fn", "exercise_expired_options", "record">>

C1_StepsInOrder ==
    \A k \in 1..Len(steps) :
        steps[k] = <<((k - 1) \div 4) + 1, C1_Order[((k - 1) % 4) + 1]>>

RECURSIVE C1_Compounded(_)
C1_Compounded(k) ==
    IF k = 0 THEN portfolio.initial_value
    ELSE (C1_Compounded(k - 1)
          * (RetDen + market[k].Returns * portfolio.beta)) \div RetDen

C1_StrategySeesCompoundedEquity ==
    last.op = "strategy_fn" => last.equity_seen = C1_Compounded(row)

RECURSIVE C1_HeldPayoff(_, _, _)
C1_HeldPayoff(opts, i, price) ==
    IF i = 0 THEN 0
    ELSE Max(opts[i].strike - price, 0) * opts[i].quantity
         + C1_HeldPayoff(opts, i - 1, price)

RECURSIVE C1_ExpiredPayoff(_, _, _, _)
C1_ExpiredPayoff(opts, i, price, date) ==
    IF i = 0 THEN 0
    ELSE (IF opts[i].expiry <= date
          THEN Max(opts[i].strike - price, 0) * opts[i].quantity
          ELSE 0)
         + C1_ExpiredPayoff(opts, i - 1, price, date)

\* the record of row k is written after the exercise of row k: it is dated k,
\* no option that expired by day k is still held, and its Value is the
\* equity plus the cash (which holds the payoffs realized that day) plus the
\* intrinsic value of the options still held
C1_RecordAfterExercise ==
    last.op = "record" =>
        LET k == Len(portfolio.history)
            h == portfolio.history[k]
        IN  /\ k = row - 1
            /\ h.Date = k
            /\ \A i \in 1..Len(portfolio.options) :
                   portfolio.options[i].expiry > k
            /\ h.Value = portfolio.equity_value + portfolio.cash
                         + C1_HeldPayoff(portfolio.options,
                                         Len(portfolio.options),
                                         market[k].Close)

\* the exercise of a row puts the payoff of every option whose expiry is
\* reached that day into cash, at that day's price
C1_ExerciseCreditsCash ==
    last'.op = "exercise_expired_options" =>
        portfolio'.cash =
            portfolio.cash
            + C1_ExpiredPayoff(portfolio.options, Len(portfolio.options),
                               market[row].Close, row)

\* C1: run_simulation processes the market rows in index order and runs, for
\* each row, update_equity, the strategy, exercise_expired_options and
\* record once each in this order, a row starting only after the record of
\* the row before; the strategy sees the equity compounded with the day's
\* return, and the payoff of an option whose expiry is reached that day is
\* in cash in that day's recorded Value.
C1_SimulationStepOrder ==
    /\ [](C1_StepsInOrder /\ C1_StrategySeesCompoundedEquity
          /\ C1_RecordAfterExercise)
    /\ [][C1_ExerciseCreditsCash]_vars

\* the run is over, every row has its record, and the cash is positive, which
\* takes a payoff realized on an expiry day
C1_Witness ==
    /\ row = Len(market) + 1
    /\ Len(steps) = 4 * Len(market)
    /\ Len(portfolio.history) = Len(market)
    /\ portfolio.cash > 0

----------------------------------------------------------------------------
(* Properties of the Portfolio methods (Spec) *)

RECURSIVE C2_OptionSum(_, _, _, _)
C2_OptionSum(opts, i, S, date) ==
    IF i = 0 THEN 0
    ELSE (IF opts[i].expiry <= date
          THEN 0
          ELSE Max(opts[i].strike - S, 0) * opts[i].quantity)
         + C2_OptionSum(opts, i - 1, S, date)

C2_Decomposition ==
    last.op = "total_value" =>
        last.ret = portfolio.equity_value + portfolio.cash
                   + C2_OptionSum(portfolio.options, Len(portfolio.options),
                                  last.price, last.date)

C2_NoSideEffect ==
    last'.op = "total_value" =>
        /\ portfolio' = portfolio
        /\ (last.op = "total_value" /\ last.price = last'.price
            /\ last.date = last'.date) => last'.ret = last.ret

\* C2: after any sequence of update_equity, buy_put and
\* exercise_expired_options calls, total_value(S, date) returns
\* equity_value + cash + the sum over the held options of 0 for an option
\* with expiry <= date and max(strike - S, 0) * quantity for every other;
\* the call changes no portfolio state and repeating it gives the same result.
C2_TotalValueDecomposition ==
    []C2_Decomposition /\ [][C2_NoSideEffect]_vars

\* total_value is called on a portfolio holding an expired option and a live
\* in-the-money option
C2_Witness ==
    /\ last.op = "total_value"
    /\ \E i, j \in 1..Len(portfolio.options) :
           /\ portfolio.options[i].expiry <= last.date
           /\ portfolio.options[j].expiry > last.date
           /\ portfolio.options[j].strike > last.price

RECURSIVE C3_ExpiredPayoff(_, _, _, _)
C3_ExpiredPayoff(opts, i, price, date) ==
    IF i = 0 THEN 0
    ELSE (IF opts[i].expiry <= date
          THEN Max(opts[i].strike - price, 0) * opts[i].quantity
          ELSE 0)
         + C3_ExpiredPayoff(opts, i - 1, price, date)

\* C3: exercise_expired_options(price, date) changes cash by exactly the sum
\* of max(strike - price, 0) * quantity over the held options with
\* expiry <= date, for options of either quantity sign; options with
\* expiry > date contribute nothing.
C3_ExerciseCreditsPayoffSum ==
    [][last'.op = "exercise_expired_options" =>
          portfolio'.cash =
              portfolio.cash
              + C3_ExpiredPayoff(portfolio.options, Len(portfolio.options),
                                 last'.price, last'.date)]_vars

C4_Live(opts, date) ==
    LET Unexpired(o) == o.expiry > date IN SelectSeq(opts, Unexpired)

C4_IsPrefix(s, t) ==
    Len(s) <= Len(t) /\ \A i \in 1..Len(s) : s[i] = t[i]

C4_Step ==
    /\ last'.op = "exercise_expired_options" =>
           /\ portfolio'.options = C4_Live(portfolio.options, last'.date)
           /\ portfolio'.equity_value = portfolio.equity_value
           /\ portfolio'.total_transaction_costs
                  = portfolio.total_transaction_costs
           /\ portfolio'.history = portfolio.history
    /\ last'.op = "check_early_exercise" =>
           last'.ret = 0 /\ portfolio' = portfolio
    /\ last'.op # "exercise_expired_options" =>
           C4_IsPrefix(portfolio.options, portfolio'.options)

C5_Step ==
    /\ (last'.op = "buy_put" /\ ~last'.raised) =>
           /\ portfolio'.options =
                  Append(portfolio.options,
                         [strike |-> last'.strike, premium |-> last'.premium,
                          expiry |-> last'.expiry,
                          quantity |-> last'.quantity])
           /\ SpreadDen * (portfolio.cash - portfolio'.cash) =
                  last'.premium * last'.quantity * (SpreadDen + SpreadNum)
           /\ SpreadDen * (portfolio'.total_transaction_costs
                           - portfolio.total_transaction_costs) =
                  last'.premium * last'.quantity * SpreadNum
           /\ portfolio'.equity_value = portfolio.equity_value
           /\ portfolio'.history = portfolio.history
    /\ (last'.op = "buy_put" /\ last'.allow_margin) => ~last'.raised

C6_Step ==
    (last'.op = "buy_put" /\ ~last'.allow_margin) =>
        /\ last'.raised <=>
               (SpreadDen * portfolio.cash
                  < last'.premium * last'.quantity * (SpreadDen + SpreadNum))
        /\ last'.raised => portfolio' = portfolio

\* C6: buy_put with allow_margin=False fails exactly when
\* cash < premium * quantity * (1 + spread), cash equal to the total cost
\* succeeding, and a failed call leaves the portfolio as it was.
C6_InsufficientFunds == [][C6_Step]_vars

\* a buy_put without margin was refused on a portfolio that already holds
\* an option
C6_Witness ==
    /\ last.op = "buy_put"
    /\ ~last.allow_margin
    /\ last.raised
    /\ Len(portfolio.options) = 1

----------------------------------------------------------------------------
(* Properties of the Option methods (SpecOption) *)

\* C7: payoff(S) = max(strike - S, 0) * quantity; value(S, date) = payoff(S)
\* when date < expiry and 0 when date >= expiry, date = expiry included;
\* total_cost() = premium * quantity; the option is the same after the call.
C7_OptionMethods ==
    /\ last.op = "payoff" =>
           last.ret = Max(last.self.strike - last.price, 0)
                      * last.self.quantity
    /\ last.op = "value" =>
           last.ret = IF last.date < last.self.expiry
                      THEN Max(last.self.strike - last.price, 0)
                           * last.self.quantity
                      ELSE 0
    /\ last.op = "total_cost" =>
           last.ret = last.self.premium * last.self.quantity

\* value is asked on the expiry date itself of an in-the-money option
C7_Witness ==
    /\ last.op = "value"
    /\ last.date = last.self.expiry
    /\ last.self.strike > last.price
    /\ last.ret = 0

\* C8 as claimed: payoff(price) >= 0 and value(price, date) >= 0 for every
\* Option, the quantity being any integer.
C8_NonNegative ==
    last.op \in {"payoff", "value"} => last.ret >= 0

\* C8 as amended: payoff and value are >= 0 for every Option with
\* quantity >= 0, and <= 0 for every Option with quantity <= 0.
C8_SignFollowsQuantity ==
    last.op \in {"payoff", "value"} =>
        /\ last.self.quantity >= 0 => last.ret >= 0
        /\ last.self.quantity <= 0 => last.ret <= 0

\* the payoff of an out-of-the-money long put is asked and is 0
C8_Witness ==
    /\ last.op = "payoff"
    /\ last.self.quantity > 0
    /\ last.self.strike < last.price
    /\ last.ret = 0

----------------------------------------------------------------------------
(* Properties of solve_fixed_floor_lp (SpecLP) *)

\* C9: solve_fixed_floor_lp never returns status 'infeasible', also when
\* some scenario has V[s] < F and Payoff[i,s] = 0 for every strike i.
C9_NeverInfeasible == lp_out.status # "infeasible"

\* the least penalized objective reachable with the quantities x when the
\* slack is added to the scenario value: z[s] = max(F - V[s] - payoffs, 0)
C10_PenalizedCost(in, x) ==
    LET Short(s) == Max(0, XDen * Floor(in) - XDen * ScenarioValue(in, s)
                           - PayoffSum(in, in.Is, x, s))
        shortfall == [s \in Range(in.S) |-> Short(s)]
    IN  PremiumSum(in, in.Is, x) + PDen * SlackSum(in.S, shortfall)

C10_Example ==
    [Is |-> <<"K90", "K100">>, S |-> <<"crash", "mild", "up">>,
     K |-> [K90 |-> 9, K100 |-> 10], p |-> [K90 |-> 3, K100 |-> 6],
     Q |-> 10, r |-> [crash |-> -4, mild |-> -1, up |-> 1], L |-> 2]

\* C10: when the status is 'optimal', the returned x >= 0 and z >= 0
\* minimise sum p[i]*x[i] + sum z[s] among all x, z >= 0 with
\* V[s] + sum Payoff[i,s]*x[i] + z[s] >= F for every s; for the example
\* K={90,100}, p={1.5,3.0}, Q=100, L=0.20, r={-0.40,-0.10,0.10} the status
\* is optimal and total_cost > 0.
C10_MinimisesPenalizedCost ==
    /\ lp_out.status = "optimal" =>
           /\ \A i \in Range(lp_in.Is) : lp_out.quantities[i] >= 0
           /\ \A s \in Range(lp_in.S) :
                  /\ lp_out.shortfalls[s] >= 0
                  /\ XDen * ScenarioValue(lp_in, s)
                       + PayoffSum(lp_in, lp_in.Is, lp_out.quantities, s)
                       + lp_out.shortfalls[s] >= XDen * Floor(lp_in)
           /\ \A x \in XPoints(lp_in) :
                  Objective(lp_in, lp_out.quantities, lp_out.shortfalls)
                      <= C10_PenalizedCost(lp_in, x)
    /\ (lp_in = C10_Example /\ lp_out # NoLP) =>
           lp_out.status = "optimal" /\ lp_out.total_cost > 0

----------------------------------------------------------------------------
(* Properties of the strategy functions (SpecStrategies) *)

\* the step is a call of fixed_floor_lp_strategy
C11_IsCall == params.strategy = "fixed_floor_lp" /\ calls' = calls + 1

C11_ReturnsSkipped ==
    /\ ~last'.raised
    /\ last'.ret.action = "skipped"
    /\ last'.ret.total_cost = 0

C11_Step ==
    C11_IsCall =>
        LET within_interval ==
                /\ params.last_fixed_floor_action # None
                /\ today' - params.last_fixed_floor_action
                       < params.hedge_interval
            lp_not_optimal ==
                last'.lp_called /\ lp_out'.status # "optimal"
            lp_costs_nothing ==
                last'.lp_called /\ lp_out'.total_cost = 0
        IN  /\ (within_interval \/ lp_not_optimal \/ lp_costs_nothing)
                   => C11_ReturnsSkipped
            /\ lp_not_optimal =>
                   /\ lp_out'.total_cost = 0
                   /\ \A i \in DOMAIN lp_out'.quantities :
                          lp_out'.quantities[i] = 0
                   /\ \A s \in DOMAIN lp_out'.shortfalls :
                          lp_out'.shortfalls[s] = 0
            /\ C11_ReturnsSkipped =>
                   /\ portfolio'.cash = portfolio.cash
                   /\ portfolio'.equity_value = portfolio.equity_value
                   /\ portfolio'.options = portfolio.options
                   /\ params' = params
            /\ params'.last_fixed_floor_action
                   # params.last_fixed_floor_action =>
                   ~last'.raised /\ last'.ret.action = "executed"
            /\ (~last'.raised /\ last'.ret.action = "executed") =>
                   params'.last_fixed_floor_action = today'

\* C11: a fixed_floor_lp_strategy call that falls within hedge_interval days
\* of the last executed hedge, or whose LP result is not optimal (the
\* result is then zero-filled with total_cost 0) or costs nothing, raises
\* nothing, returns total_cost 0 with action 'skipped' and leaves cash,
\* equity_value, options and params unchanged; last_fixed_floor_action
\* changes only in a call that executes a hedge, to that call's date.
C11_SkippedCallChangesNothing == [][C11_Step]_vars

\* a hedge was executed and a later call within the interval was skipped
C11_Witness ==
    /\ params.strategy = "fixed_floor_lp"
    /\ params.last_fixed_floor_action # None
    /\ last.op = "fixed_floor_lp_strategy"
    /\ ~last.raised
    /\ last.ret.action = "skipped"
    /\ last.ret.note = "interval"
    /\ today - params.last_fixed_floor_action = 1
    /\ portfolio.options # <<>>

----------------------------------------------------------------------------
(* Properties of solve_vix_ladder_lp (SpecLadder) *)

C12_BetaFactor(beta) == IF beta >= BetaDen THEN beta ELSE BetaDen

\* C12: a call with a non-empty options list that returns, on the LP path or
\* on the greedy path, returns budget_allocated = V0 * 0.01 * (vix / 20) *
\* max(1, beta), whatever else it was given; a call with an empty options
\* list returns ([], 0.0, 0.0).
C12_BudgetFormula ==
    lp_out.status = "returned" =>
        IF lp_in.options = <<>>
        THEN /\ lp_out.quantities = <<>>
             /\ lp_out.total_cost = 0
             /\ lp_out.budget_allocated = 0
        ELSE 100 * 20 * BetaDen * lp_out.budget_allocated
                 = lp_in.V0 * lp_in.vix * C12_BetaFactor(lp_in.beta)

\* a budget was computed for a portfolio with beta below 1
C12_Witness ==
    /\ lp_out.status = "returned"
    /\ lp_in.options # <<>>
    /\ lp_in.beta < BetaDen
    /\ lp_in.V0 > 0
    /\ lp_out.budget_allocated = 40

\* the options a rung holds
C13_Members(k) ==
    {j \in 1..Len(lp_in.options) : RungOf(lp_in.options[j], lp_in.S0) = k}

C13_Cost(j) ==
    lp_in.options[j].premium * (100 + lp_in.transaction_cost_rate)

\* c[j] * x[j] summed over a set of options, in 1/FracDen money units
RECURSIVE C13_Spend(_)
C13_Spend(members) ==
    IF members = {} THEN 0
    ELSE LET j == CHOOSE i \in members : TRUE
             x == lp_out.quantities[j]
         IN  (C13_Cost(j) * x.num * FracDen) \div (100 * x.den)
             + C13_Spend(members \ {j})

RECURSIVE C13_FractionSum(_)
C13_FractionSum(rungs) ==
    IF rungs = {} THEN 0
    ELSE LET k == CHOOSE i \in rungs : TRUE
         IN  lp_in.ladder_budget_allocations[k].frac
             + C13_FractionSum(rungs \ {k})

C13_PositivePremiums ==
    \A j \in 1..Len(lp_in.options) : lp_in.options[j].premium > 0

C13_InScope ==
    /\ lp_out.status = "returned"
    /\ lp_in.options # <<>>
    /\ C13_PositivePremiums
    /\ C13_FractionSum({k \in 1..4 : C13_Members(k) # {}}) <= FracDen

\* C13: when the fractions of the non-empty rungs sum to at most 1 and the
\* premiums are positive, the returned allocation costs at most the budget
\* and spends at least budget * fraction in every non-empty rung with a
\* positive fraction, on the LP path and on the greedy path.
C13_BudgetAndRungMinimums ==
    C13_InScope =>
        /\ lp_out.total_cost = C13_Spend(1..Len(lp_in.options))
        /\ lp_out.total_cost <= FracDen * lp_out.budget_allocated
        /\ \A k \in 1..4 :
               (C13_Members(k) # {}
                /\ lp_in.ladder_budget_allocations[k].frac > 0) =>
                   C13_Spend(C13_Members(k))
                       >= lp_out.budget_allocated
                              * lp_in.ladder_budget_allocations[k].frac

\* the greedy path funded three rungs
C13_Witness ==
    /\ C13_InScope
    /\ lp_out.path = "greedy"
    /\ Cardinality({k \in 1..4 : C13_Members(k) # {}}) = 3
    /\ lp_out.total_cost > 0

\* C14: solve_vix_ladder_lp never raises: with premiums >= 0 and four
\* allocation entries every call returns, and what the greedy path returns
\* has one quantity >= 0 per option.
C14_NeverRaises ==
    lp_out # NoLP =>
        /\ lp_out.status = "returned"
        /\ lp_out.path = "greedy" =>
               /\ Len(lp_out.quantities) = Len(lp_in.options)
               /\ \A j \in 1..Len(lp_out.quantities) :
                      lp_out.quantities[j].num >= 0

C15_SingleRung(k) ==
    /\ lp_in.options # <<>>
    /\ C13_PositivePremiums
    /\ C13_Members(k) = 1..Len(lp_in.options)
    /\ lp_in.ladder_budget_allocations[k].frac > 0
    /\ lp_in.ladder_budget_allocations[k].frac <= FracDen

\* C15: when every candidate lies in one rung k with 0 < fraction <= 1 and
\* the premiums are positive, the LP path and the greedy path both return
\* total_cost = budget_allocated * fraction[k].
C15_SingleRungSameCost ==
    \A k \in 1..4 :
        (lp_out.status = "returned" /\ C15_SingleRung(k)) =>
            lp_out.total_cost
                = lp_out.budget_allocated
                      * lp_in.ladder_budget_allocations[k].frac

\* the LP path returned quantities that the greedy path does not return, at
\* the same positive cost
C15_Witness ==
    /\ lp_out.status = "returned"
    /\ lp_out.path = "lp"
    /\ C15_SingleRung(1)
    /\ Len(lp_in.options) = 2
    /\ lp_out.quantities # LadderGreedyResult(lp_in).quantities
    /\ lp_out.total_cost = LadderGreedyResult(lp_in).total_cost
    /\ lp_out.total_cost > 0

\* the rung of an option by the boundaries shallow [0.05, 0.15), medium
\* [0.15, 0.25), deep [0.25, 0.40), catastrophic [0.40, 1.00]; 0 for none
C16_Rung(opt, S0) ==
    LET otm == 100 * (S0 - opt.strike)
    IN  IF 5 * S0 <= otm /\ otm < 15 * S0 THEN 1
        ELSE IF 15 * S0 <= otm /\ otm < 25 * S0 THEN 2
        ELSE IF 25 * S0 <= otm /\ otm < 40 * S0 THEN 3
        ELSE IF 40 * S0 <= otm /\ otm <= 100 * S0 THEN 4
        ELSE 0

C16_BareFractions(in) ==
    [in EXCEPT !.ladder_budget_allocations =
        [k \in 1..4 |-> BareFraction(in.ladder_budget_allocations[k].frac)]]

\* C16: every option is put in the rung its OTM percentage falls in by the
\* fixed boundaries (catastrophic closed at 1.00), an option below 0.05 is
\* in no rung and, with a positive premium, gets quantity 0, and the result
\* is one that the same call with bare fractions can return.
C16_RungsByFixedBoundaries ==
    (lp_out.status = "returned" /\ lp_in.options # <<>>) =>
        /\ \A j \in 1..Len(lp_in.options) :
               RungOf(lp_in.options[j], lp_in.S0)
                   = C16_Rung(lp_in.options[j], lp_in.S0)
        /\ \A j \in 1..Len(lp_in.options) :
               (C16_Rung(lp_in.options[j], lp_in.S0) = 0
                /\ lp_in.options[j].premium > 0) =>
                   lp_out.quantities[j].num = 0
        /\ lp_out \in solve_vix_ladder_lp(C16_BareFractions(lp_in))

----------------------------------------------------------------------------
(* quarterly_protective_put_strategy *)

C17_IsCall == last'.op = "quarterly_protective_put_strategy" /\ ~last'.raised

C17_Due ==
    \/ params.last_action = None
    \/ last'.current_date - params.last_action >= params.hedge_interval

C17_BuysOne ==
    /\ Len(portfolio'.options) = Len(portfolio.options) + 1
    /\ SubSeq(portfolio'.options, 1, Len(portfolio.options))
           = portfolio.options
    /\ LET bought == portfolio'.options[Len(portfolio'.options)]
       IN  /\ bought.quantity = 1
           /\ bought.strike
                  = (last'.current_price * params.strike_ratio) \div 100
    /\ params' = [params EXCEPT !.last_action = last'.current_date]

C17_Step ==
    C17_IsCall =>
        IF C17_Due THEN C17_BuysOne
        ELSE portfolio' = portfolio /\ params' = params

\* the day an option of the quarterly strategy was bought
C17_BoughtOn(i) == portfolio.options[i].expiry - params.expiry_days

C17_PurchasesApart ==
    params.strategy = "quarterly" =>
        \A i \in 1..(Len(portfolio.options) - 1) :
            C17_BoughtOn(i + 1) - C17_BoughtOn(i) >= params.hedge_interval

\* C17: in a sequence of quarterly_protective_put_strategy calls at
\* non-decreasing dates with one params dict, a call that returns buys
\* exactly one put of quantity 1 and strike price * strike_ratio and sets
\* last_action to its date when there is no last_action or at least
\* hedge_interval days have passed since it (exactly hedge_interval days
\* included), and otherwise changes neither the portfolio nor params; so
\* two consecutive purchases are at least hedge_interval days apart.
C17_QuarterlySchedule == [][C17_Step]_vars /\ []C17_PurchasesApart

\* three calls: a purchase, a call within the interval that buys nothing,
\* and a purchase exactly hedge_interval days after the first
C17_Witness ==
    /\ params.strategy = "quarterly"
    /\ params.hedge_interval = 2
    /\ calls = 3
    /\ Len(portfolio.options) = 2
    /\ C17_BoughtOn(2) - C17_BoughtOn(1) = params.hedge_interval
    /\ params.last_action = today
----------------------------------------------------------------------------
(* conditional_hedging_strategy *)

C18_IsCall == last'.op = "conditional_hedging_strategy"

\* recentReturn <= dropThreshold or recentVol > volMultiplier * longTermVol
C18_Trigger ==
    \/ last'.view.recent_return <= params.drop_threshold
    \/ last'.view.recent_vol * VolDen
           > params.vol_multiplier * last'.view.long_term_vol

C18_Live(self, date) ==
    {i \in 1..Len(self.options) : self.options[i].expiry > date}

C18_Step ==
    C18_IsCall =>
        /\ Len(portfolio'.options) <= Len(portfolio.options) + 1
        /\ SubSeq(portfolio'.options, 1, Len(portfolio.options))
               = portfolio.options
        /\ Len(portfolio'.options) > Len(portfolio.options) =>
               /\ C18_Trigger
               /\ C18_Live(portfolio, last'.current_date) = {}

C18_AtMostOneLive ==
    (params.strategy = "conditional" /\ params.expiry_days >= 1) =>
        Cardinality(C18_Live(portfolio, today)) <= 1

\* C18: a call of conditional_hedging_strategy buys at most one put, and
\* buys only when the risk trigger holds and no option of the portfolio
\* expires after the current date; so with non-decreasing dates and
\* expiry_days >= 1 the portfolio never holds two options that expire
\* after the date of the latest call.
C18_ConditionalSingleLivePut == [][C18_Step]_vars /\ []C18_AtMostOneLive

\* a second put was bought on the day the first one expired
C18_Witness ==
    /\ params.strategy = "conditional"
    /\ Len(portfolio.options) = 2
    /\ portfolio.options[1].expiry <= today
    /\ portfolio.options[2].expiry > today
    /\ last.op = "conditional_hedging_strategy"
    /\ last.view.recent_return > params.drop_threshold
----------------------------------------------------------------------------
(* the cash management of fixed_floor_lp_strategy and vix_ladder_strategy *)

\* the unit of the total cost the LP of the call returned
C19_Den ==
    IF last'.op = "fixed_floor_lp_strategy" THEN LPCostDen ELSE FracDen

\* a call that reached the cash management block with cash below the
\* positive total cost of the LP
C19_IsCall ==
    /\ last'.op \in {"fixed_floor_lp_strategy", "vix_ladder_strategy"}
    /\ last'.lp_called
    /\ ~last'.raised
    /\ last'.op = "fixed_floor_lp_strategy" => lp_out'.status = "optimal"
    /\ lp_out'.total_cost > 0
    /\ portfolio.cash * C19_Den < lp_out'.total_cost

\* 1.01 * (total_cost - cash), rounded up to the money unit
C19_Buffered ==
    LET deficit == lp_out'.total_cost - portfolio.cash * C19_Den
        unit == 100 * C19_Den
        rest == (deficit % unit) * 101
    IN  (deficit \div unit) * 101 + (rest \div unit)
        + (IF rest % unit = 0 THEN 0 ELSE 1)

C19_Returned ==
    IF last'.op = "fixed_floor_lp_strategy" THEN last'.ret.total_cost
    ELSE last'.ret

\* what the purchases of the call took from cash
RECURSIVE C19_Premiums(_, _)
C19_Premiums(options, from) ==
    IF from > Len(options) THEN 0
    ELSE options[from].premium * options[from].quantity
         + C19_Premiums(options, from + 1)

C19_Paid ==
    C19_Premiums(portfolio'.options, Len(portfolio.options) + 1)
    + (portfolio'.total_transaction_costs
           - portfolio.total_transaction_costs)

C19_Step ==
    C19_IsCall =>
        IF portfolio.equity_value >= C19_Buffered
        THEN /\ portfolio'.equity_value
                    = portfolio.equity_value - C19_Buffered
             /\ portfolio'.cash + C19_Paid = portfolio.cash + C19_Buffered
        ELSE /\ C19_Returned = 0
             /\ portfolio'.cash = portfolio.cash
             /\ portfolio'.equity_value = portfolio.equity_value
             /\ portfolio'.options = portfolio.options

----------------------------------------------------------------------------
(* vix_ladder_strategy *)

C20_IsCall == last'.op = "vix_ladder_strategy" /\ ~last'.raised

\* the options whose LP quantity is positive
C20_Selected ==
    {j \in 1..Len(lp_out'.quantities) : lp_out'.quantities[j].num > 0}

C20_Step ==
    C20_IsCall =>
        /\ last'.lp_called
        /\ lp_out'.status = "returned"
        /\ last'.ret = (IF last'.skipped THEN 0 ELSE lp_out'.total_cost)
        /\ ~last'.skipped =>
               /\ Len(portfolio'.options)
                      = Len(portfolio.options) + Cardinality(C20_Selected)
               /\ params'.last_lp_hedge = last'.current_date
               /\ params'.lp_cost
                      = (IF params.tracking THEN params.lp_cost ELSE 0)
                        + last'.ret

\* C20: vix_ladder_strategy has no interval gate: every call that returns
\* solves the ladder LP, and unless it is skipped for lack of equity it
\* purchases again, also on the day of the call before it and whatever
\* hedge_interval and last_lp_hedge are; after such a call last_lp_hedge is
\* the date of the call and lp_cost has grown by the returned total cost.
C20_NoIntervalGate == [][C20_Step]_vars

\* two calls on one day, each of them bought the one option of its chain
C20_Witness ==
    /\ params.strategy = "vix_ladder"
    /\ params.strike_density = 60
    /\ params.hedge_interval = 2
    /\ calls = 2
    /\ Len(portfolio.options) = 2
    /\ portfolio.options[1].expiry = portfolio.options[2].expiry
    /\ params.last_lp_hedge = today
    /\ last.ret > 0
    /\ params.lp_cost > last.ret
----------------------------------------------------------------------------
(* the purchases of fixed_floor_lp_strategy and vix_ladder_strategy *)

\* a call that executed a hedge
C21_Executed ==
    /\ last'.op \in {"fixed_floor_lp_strategy", "vix_ladder_strategy"}
    /\ last'.lp_called /\ ~last'.raised
    /\ IF last'.op = "fixed_floor_lp_strategy"
       THEN last'.ret.action = "executed"
       ELSE ~last'.skipped

C21_Bought ==
    SubSeq(portfolio'.options, Len(portfolio.options) + 1,
           Len(portfolio'.options))

\* the candidates with a positive LP quantity, as strike and quantity
\* (the exact fraction num / den)
C21_Solution ==
    IF last'.op = "fixed_floor_lp_strategy"
    THEN {[strike |-> lp_in'.K[l], num |-> lp_out'.quantities[l],
           den |-> XDen] :
             l \in {m \in Range(lp_in'.Is) : lp_out'.quantities[m] > 0}}
    ELSE {[strike |-> lp_in'.options[j].strike,
           num |-> lp_out'.quantities[j].num,
           den |-> lp_out'.quantities[j].den] :
             j \in {h \in 1..Len(lp_in'.options) :
                       lp_out'.quantities[h].num > 0}}

C21_Step ==
    C21_Executed =>
        /\ Len(C21_Bought) = Cardinality(C21_Solution)
        /\ \A q \in C21_Solution :
               \E i \in 1..Len(C21_Bought) :
                   /\ C21_Bought[i].strike = q.strike
                   /\ C21_Bought[i].quantity * q.den = q.num

\* C21: when fixed_floor_lp_strategy or vix_ladder_strategy executes a
\* hedge, it buys for every candidate with a positive LP quantity a put of
\* that strike whose quantity is the LP quantity.
C21_BuysLPQuantities == [][C21_Step]_vars
----------------------------------------------------------------------------
(* run_simulation with a strategy that does nothing *)

\* no put was bought so far: every buy_put charges a transaction cost
C22_NoOpSoFar == portfolio.total_transaction_costs = 0

\* the product over i <= k of (1 + Returns[i] * beta), times RetDen ^ k
RECURSIVE C22_Product(_)
C22_Product(k) ==
    IF k = 0 THEN 1
    ELSE C22_Product(k - 1) * (RetDen + market[k].Returns * portfolio.beta)

RECURSIVE C22_Power(_)
C22_Power(k) == IF k = 0 THEN 1 ELSE RetDen * C22_Power(k - 1)

\* amount is initial_value compounded over the first k rows
C22_Compounded(amount, k) ==
    amount * C22_Power(k) = portfolio.initial_value * C22_Product(k)

\* the rows whose update_equity has run
C22_Updated == IF pc > 1 THEN row ELSE row - 1

\* C22: while the strategy of a simulation run has done nothing, the
\* history has one record per completed market row, in market order, the
\* k-th recorded Value and the equity after the k-th row are initial_value
\* times the product over i <= k of (1 + Returns[i] * beta), cash is 0 and
\* no option is held.
C22_NoOpRun ==
    (market # NoMarket /\ C22_NoOpSoFar) =>
        /\ Len(portfolio.history) = row - 1
        /\ \A k \in 1..Len(portfolio.history) :
               /\ portfolio.history[k].Date = date_of(k)
               /\ C22_Compounded(portfolio.history[k].Value, k)
        /\ C22_Compounded(portfolio.equity_value, C22_Updated)
        /\ portfolio.cash = 0
        /\ portfolio.options = <<>>

\* a finished run with beta 2 in which equity moved and nothing was bought
C22_Witness ==
    /\ market # NoMarket
    /\ row = Len(market) + 1
    /\ C22_NoOpSoFar
    /\ portfolio.beta = 2
    /\ Len(portfolio.history) = Len(market)
    /\ portfolio.history[1].Value # portfolio.initial_value
    /\ portfolio.history[Len(market)].Value # portfolio.history[1].Value
----------------------------------------------------------------------------
(* what the strategies write *)

C23_IsCall ==
    last'.op \in {"quarterly_protective_put_strategy",
                  "conditional_hedging_strategy",
                  "fixed_floor_lp_strategy", "vix_ladder_strategy"}

\* what the buy_put calls of the step debited: premium * quantity of each
\* option added, and the transaction costs booked
RECURSIVE C23_Premiums(_, _)
C23_Premiums(options, from) ==
    IF from > Len(options) THEN 0
    ELSE options[from].premium * options[from].quantity
         + C23_Premiums(options, from + 1)

C23_Debited ==
    C23_Premiums(portfolio'.options, Len(portfolio.options) + 1)
    + (portfolio'.total_transaction_costs
           - portfolio.total_transaction_costs)

C23_Step ==
    C23_IsCall =>
        /\ portfolio'.equity_value = portfolio.equity_value
        /\ portfolio'.cash = portfolio.cash - C23_Debited
        /\ Len(portfolio'.options) >= Len(portfolio.options)
        /\ SubSeq(portfolio'.options, 1, Len(portfolio.options))
               = portfolio.options

\* C23: a call of any of the four strategies changes cash and the options
\* only through buy_put (one option added and its cost debited per call)
\* and does not change equity_value, which only update_equity writes.
C23_OnlyMutators == [][C23_Step]_vars
----------------------------------------------------------------------------
(* run_simulation when the strategy raises *)

\* C24: when the strategy call raises on the k-th market row, the error
\* leaves run_simulation: no statement runs after it, and the history holds
\* the k - 1 records of the earlier rows and none for row k.
C24_ErrorPropagates ==
    /\ [](SimAborted =>
             /\ last.row = row
             /\ Len(portfolio.history) = row - 1
             /\ \A k \in 1..Len(portfolio.history) :
                    portfolio.history[k].Date = date_of(k)
             /\ steps # <<>>
             /\ steps[Len(steps)] = <<row, "update_equity">>)
    /\ [][~SimAborted]_vars

\* the strategy raised on the second row: one record is in the history
C24_Witness ==
    /\ SimAborted
    /\ row = 2
    /\ Len(market) > 2
    /\ Len(portfolio.history) = 1
----------------------------------------------------------------------------
(* two simulation runs side by side *)

\* run i alone, from its construction up to the n-th loop-body statement
RECURSIVE C25_Alone(_, _)
C25_Alone(i, n) ==
    IF n = 0
    THEN [self |-> NewPortfolio(portfolio[i].initial_value,
                                portfolio[i].beta, DEFAULT_CASH),
          params |-> [params[i] EXCEPT !.last_action = None]]
    ELSE LET before == C25_Alone(i, n - 1)
         IN  RunStatement(before.self, before.params,
                          LoopBody[((n - 1) % Len(LoopBody)) + 1],
                          ((n - 1) \div Len(LoopBody)) + 1)

\* the number of statements run i has executed
C25_Done(i) == (row[i] - 1) * Len(LoopBody) + (pc[i] - 1)

----------------------------------------------------------------------------
(* Portfolio.check_early_exercise *)

\* the held options the rule is asked about: not expired and in the money
C26_Candidate(opt) == last'.date < opt.expiry /\ opt.strike > last'.price

\* the rule returns true
C26_Exercised(opt) == C26_Candidate(opt) /\ last'.rule = "always_exercise"

RECURSIVE C26_Payoffs(_)
C26_Payoffs(opts) ==
    IF opts = <<>> THEN 0
    ELSE (IF C26_Exercised(Head(opts))
          THEN payoff(Head(opts), last'.price) ELSE 0)
         + C26_Payoffs(Tail(opts))

C26_Kept(opt) == ~C26_Exercised(opt)

C26_Step ==
    last'.op = "check_early_exercise" =>
        /\ portfolio'.options = SelectSeq(portfolio.options, C26_Kept)
        /\ portfolio'.cash = portfolio.cash + C26_Payoffs(portfolio.options)
        /\ last'.ret = Len(portfolio.options) - Len(portfolio'.options)

\* C26: check_early_exercise(price, date, rule) exercises every held option
\* that has not expired, is in the money and for which the rule returns
\* true: it credits the payoff to cash, removes the option, and returns the
\* number of options exercised; the other options stay.
C26_EarlyExercise == [][C26_Step]_vars
----------------------------------------------------------------------------
(* solve_fixed_floor_lp: the shortfalls of an optimal result *)

\* C27: when solve_fixed_floor_lp returns status optimal, every returned
\* shortfall z[s] is 0, floor_met is True, and the returned quantities meet
\* the floor, V[s] + sum of Payoff[i, s] * x[i] >= F, in every scenario.
C27_OptimalMeetsFloor ==
    (lp_out # NoLP /\ lp_out.status = "optimal") =>
        /\ \A s \in Range(lp_in.S) : lp_out.shortfalls[s] = 0
        /\ lp_out.floor_met
        /\ \A s \in Range(lp_in.S) :
               XDen * ScenarioValue(lp_in, s)
                   + PayoffSum(lp_in, lp_in.Is, lp_out.quantities, s)
                   >= XDen * Floor(lp_in)

\* an optimal result that had to buy puts to meet the floor
C27_Witness ==
    /\ lp_out # NoLP
    /\ lp_out.status = "optimal"
    /\ lp_out.total_cost > 0
    /\ \E s \in Range(lp_in.S) : ScenarioValue(lp_in, s) < Floor(lp_in)
----------------------------------------------------------------------------
(* cash after the purchases of the LP strategies *)

\* a call that executed a hedge
C28_Executed ==
    /\ last'.op \in {"fixed_floor_lp_strategy", "vix_ladder_strategy"}
    /\ last'.lp_called /\ ~last'.raised
    /\ IF last'.op = "fixed_floor_lp_strategy"
       THEN last'.ret.action = "executed"
       ELSE ~last'.skipped

C28_Step == (C28_Executed /\ portfolio.cash >= 0) => portfolio'.cash >= 0

\* C28: when fixed_floor_lp_strategy or vix_ladder_strategy starts with
\* cash >= 0 and executes a hedge, cash is still >= 0 after all its buy_put
\* calls: the equity sale of the rebalancing funds the whole purchase.
C28_CashStaysNonNegative == [][C28_Step]_vars

\* ---------------------------------------------------------------------
\* C29
\* ---------------------------------------------------------------------

C29_DefaultingStrategies ==
    {"quarterly_protective_put_strategy", "conditional_hedging_strategy",
     "fixed_floor_lp_strategy"}

C29_Step == last'.op \in C29_DefaultingStrategies => ~last'.raised

\* C29: quarterly_protective_put_strategy, conditional_hedging_strategy
\* and fixed_floor_lp_strategy never fail because VIX is unavailable:
\* whether the market has no get_vix or its get_vix fails for the date
\* (VIX not fetched, no value on or before the date), the call does not
\* raise and proceeds with the default VIX.
C29_NeverFailsWithoutVix == [][C29_Step]_vars

\* ---------------------------------------------------------------------
\* C30
\* ---------------------------------------------------------------------

C30_Once(current_price, current_date) ==
    exercise_expired_options(portfolio, current_price, current_date)

C30_Twice(current_price, current_date) ==
    exercise_expired_options(C30_Once(current_price, current_date),
                             current_price, current_date)

C30_NoneExpired(current_date) ==
    \A j \in 1..Len(portfolio.options) :
        portfolio.options[j].expiry > current_date

\* C30: exercise_expired_options is idempotent for every portfolio state:
\* calling it twice in a row with the same (price, date) leaves exactly the
\* state of calling it once, and a call made when no held option has
\* expiry <= date changes nothing.
C30_ExerciseIdempotent ==
    \A current_price \in Prices, current_date \in Dates :
        /\ C30_Twice(current_price, current_date)
               = C30_Once(current_price, current_date)
        /\ C30_NoneExpired(current_date) =>
               C30_Once(current_price, current_date) = portfolio

\* a call has credited the payoff of an expired put (300 at price 800) and
\* left a live put in the portfolio
C30_Witness ==
    /\ last.op = "exercise_expired_options"
    /\ last.price = 800
    /\ portfolio.cash >= 250
    /\ Len(portfolio.options) >= 1
    /\ C30_NoneExpired(last.date)
============================================================================
